---- MODULE Spec2Model ----
(***************************************************************************)
(* Model of the terrain visualizer's renderer (TerrainRenderer) and of the *)
(* application handlers that drive it (TerrainVisualizerApp).              *)
(*                                                                         *)
(* JavaScript numbers are modelled as the double-precision numbers they    *)
(* are: every sum, difference, product and quotient is the exact result    *)
(* rounded to the nearest number of 53 bits, with the two zeros, the two   *)
(* infinities and NaN.  The value stored in a Float32Array is rounded once *)
(* more, to 24 bits (Fround).                                              *)
(***************************************************************************)
EXTENDS Integers, Sequences, FiniteSets, TLC

(***************************************************************************)
(* Bounds of the model.                                                    *)
(***************************************************************************)
\* largest level count of a render whose passes are taken in any order
MaxInterleaved == 3
\* largest width and largest height of a heightmap
MaxDim == 3
\* largest number of samples of a heightmap
MaxCells == 9
\* samples are the normalized values k / ValDen, k in 0..ValDen
ValDen == 1
\* largest contour level count of an extraction
MaxLevels == 3
\* largest contour level count entered in a session
MaxSessionLevels == 1
\* largest number of samples of a .r16 file
MaxSamples == 2
\* width and height of the demo heightmap, for the 256 of generateDemoHeightmap
DemoResolution == 3

(***************************************************************************)
(* State.                                                                  *)
(***************************************************************************)
VARIABLES
  appHeightmap,   \* TerrainVisualizerApp.heightmap
  heightmap,      \* TerrainRenderer.heightmap
  mapScale,       \* TerrainRenderer.mapScale
  colorScheme,    \* TerrainVisualizerApp.currentScheme
  colorSchemes,   \* TerrainVisualizerApp.colorSchemes
  contourLevels,  \* TerrainRenderer.contourLevels
  showGrid,       \* TerrainRenderer.showGrid
  terrain,        \* TerrainRenderer.terrain
  contours,       \* TerrainRenderer.contours
  grid,           \* TerrainRenderer.grid
  scene,          \* the children renderTerrain gives the scene, in insertion order
  levels,         \* addContours' local `levels` at the end of its last call
  points,         \* addContours' local `points` of each level of its last call
  reported,       \* the failure the last handler signalled to its caller
  terrainInfo,    \* the value of TerrainRenderer.getTerrainInfo()'s last call
  scanned,        \* per level, the cells addContours' two loops have completed
  fileInput,      \* TerrainVisualizerApp.fileInput.value
  pending,        \* the files whose read handleFileSelect is awaiting
  requested,      \* while reads are awaited, the load asked for last (history)
  probe           \* the arguments of a scan of one level taken by itself, and its points

vars ==
  <<appHeightmap, heightmap, mapScale, colorScheme, colorSchemes, contourLevels, showGrid,
    terrain, contours, grid, scene, levels, points, reported, terrainInfo,
    scanned, fileInput, pending, requested, probe>>

\* the variables no handler of the render controls touches
loadVars == <<scanned, fileInput, pending, requested, probe>>

\* the value undefined
Undefined == [kind |-> "undefined"]

\* the properties every object inherits from Object.prototype
ObjectPrototype ==
  {"constructor", "toString", "toLocaleString", "valueOf", "hasOwnProperty",
   "isPrototypeOf", "propertyIsEnumerable", "__proto__", "__defineGetter__",
   "__defineSetter__", "__lookupGetter__", "__lookupSetter__"}

\* schemes[name] of the object colorSchemes: the scheme stored under the
\* name, else the property of that name the object inherits, else undefined
SchemeLookup(schemes, name) ==
  IF name \in DOMAIN schemes THEN schemes[name]
  ELSE IF name \in ObjectPrototype THEN [inherited |-> name]
  ELSE Undefined

\* the truthiness of schemes[name]: schemes and inherited properties are
\* objects or functions, which are truthy; undefined is not
Truthy(value) == value # Undefined

\* TerrainRenderer.colorScheme: the renderer is constructed with, and
\* setColorScheme is always given, the object colorSchemes[currentScheme],
\* which saveColorScheme changes in place
RendererColorScheme == SchemeLookup(colorSchemes, colorScheme)

(***************************************************************************)
(* The evaluation of an expression happens once in the program; these two  *)
(* operators give an operator's arguments their values before it is        *)
(* applied, so that the model evaluates them once as well.                 *)
(***************************************************************************)
With(F(_), e) == CHOOSE r \in {F(v) : v \in {e}} : TRUE

With2(F(_, _), e1, e2) == CHOOSE r \in {F(v1, v2) : v1 \in {e1}, v2 \in {e2}} : TRUE

(***************************************************************************)
(* Numbers: the double-precision floating-point numbers of the language.   *)
(* A number is [k, s, m, e].  k = "num" is the finite number s * m * 2^e,  *)
(* s being 1 or -1 and m an odd natural number, or 0 with e = 0 for the    *)
(* two zeros.  k = "inf" is the infinity of sign s, k = "nan" is NaN.      *)
(* A natural number m is a sequence of limbs below 2^15, the lowest limb   *)
(* first and the highest limb not 0; <<>> is 0.                            *)
(***************************************************************************)
Abs(i) == IF i < 0 THEN 0 - i ELSE i

Max(i, j) == IF i < j THEN j ELSE i

Min(i, j) == IF i < j THEN i ELSE j

\* the number of bits of n
RECURSIVE Bits(_)
Bits(n) == IF n = 0 THEN 0 ELSE 1 + Bits(n \div 2)

NaN == [k |-> "nan", s |-> 1, m |-> <<>>, e |-> 0]

Infinity(sign) == [k |-> "inf", s |-> sign, m |-> <<>>, e |-> 0]

PosInfinity == Infinity(1)

NegInfinity == Infinity(0 - 1)

\* the number 0.5
Half == [k |-> "num", s |-> 1, m |-> <<1>>, e |-> 0 - 1]

Zero(sign) == [k |-> "num", s |-> sign, m |-> <<>>, e |-> 0]

IsNaN(a) == a.k = "nan"

IsFinite(a) == a.k = "num"

IsZero(a) == a.k = "num" /\ a.m = <<>>

(***************************************************************************)
(* The arithmetic of the numbers.  Every sum, product and quotient is the  *)
(* exact result rounded to the nearest number of 53 bits, ties to the even *)
(* one ("nearest").  The steps are the cases of one recursive operator,    *)
(* each with the record of its arguments; those on natural numbers come    *)
(* first.                                                                  *)
(***************************************************************************)
RECURSIVE Calc(_, _)
RECURSIVE SessionResults

\* the exponent of the largest power of 2 that divides n > 0
RECURSIVE TwoPower(_)
TwoPower(n) == IF n % 2 = 1 THEN 0 ELSE 1 + TwoPower(n \div 2)

\* the limbs of the natural number n
Limbs(n) ==
  IF n = 0 THEN <<>>
  ELSE IF n < 32768 THEN <<n>>
  ELSE IF n < 1073741824 THEN <<n % 32768, n \div 32768>>
  ELSE <<n % 32768, (n \div 32768) % 32768, n \div 1073741824>>

\* the integer i as a number
Int2Num(i) ==
  IF i = 0 THEN Zero(1)
  ELSE [k |-> "num", s |-> IF i < 0 THEN 0 - 1 ELSE 1,
        m |-> Limbs(Abs(i) \div 2 ^ TwoPower(Abs(i))), e |-> TwoPower(Abs(i))]

\* a + b
Add(a, b) == Calc("plus", [a |-> a, b |-> b])

\* -a
Neg(a) == CHOOSE r \in {IF IsNaN(v) THEN v ELSE [v EXCEPT !.s = 0 - @] : v \in {a}} : TRUE

\* a - b
Sub(a, b) == Add(a, Neg(b))

\* a * b
Mul(a, b) == Calc("times", [a |-> a, b |-> b])

\* a / b
Div(a, b) == Calc("over", [a |-> a, b |-> b])

\* the number literal n/d, and the quotient n / d of two integers
Frac(n, d) == Div(Int2Num(n), Int2Num(d))

\* a <= b
Leq(a, b) == Calc("lesseq", [a |-> a, b |-> b])

\* a > b: false when either side is NaN
Gt(a, b) == \E x \in {a}, y \in {b} : ~IsNaN(x) /\ ~IsNaN(y) /\ ~Leq(x, y)

\* a < b
Lt(a, b) == Gt(b, a)

\* Math.min(a, b)
MathMin(a, b) ==
  CHOOSE r \in {IF IsNaN(x) \/ IsNaN(y) THEN NaN
                ELSE IF IsZero(x) /\ IsZero(y) THEN Zero(Min(x.s, y.s))
                ELSE IF Leq(x, y) THEN x ELSE y :
                  x \in {a}, y \in {b}} : TRUE

\* Math.max(a, b)
MathMax(a, b) ==
  CHOOSE r \in {IF IsNaN(x) \/ IsNaN(y) THEN NaN
                ELSE IF IsZero(x) /\ IsZero(y) THEN Zero(Max(x.s, y.s))
                ELSE IF Leq(x, y) THEN y ELSE x :
                  x \in {a}, y \in {b}} : TRUE

\* Math.floor(a) of a finite a, as an integer
MathFloor(a) == Calc("floor", [a |-> a])

\* Math.fround(a), the value a Float32Array element holds after a is stored
\* in it: the nearest number of 24 bits in the range of single precision
Fround(a) ==
  CHOOSE r \in {IF v.k # "num" THEN v
                ELSE Calc("nearest", [s |-> v.s, m |-> v.m, e |-> v.e,
                                      precision |-> 24, low |-> 0 - 149, high |-> 127]) :
                v \in {a}} : TRUE

\* a === b: false of NaN, true of the two zeros
StrictEq(a, b) == ~IsNaN(a) /\ ~IsNaN(b) /\ (a = b \/ (IsZero(a) /\ IsZero(b)))

(***************************************************************************)
(* Heightmaps: {data, width, height}, data row-major.                      *)
(***************************************************************************)
\* the value of a field that holds no object
NULL == [null |-> TRUE]

\* the samples of the model's heightmaps: k / ValDen as a Float32Array, the
\* type of heightmap.data, holds it
Values == {Fround(Frac(k, ValDen)) : k \in 0..ValDen}

Dims == {d \in (1..MaxDim) \X (1..MaxDim) : d[1] * d[2] <= MaxCells}

Heightmap(w, h, samples) == [width |-> w, height |-> h, data |-> samples]

Grids ==
  UNION {{Heightmap(d[1], d[2], s) : s \in [1..(d[1] * d[2]) -> Values]} : d \in Dims}

\* data[idx], idx counted from 0; a read outside the array is undefined,
\* which the arithmetic that follows turns into NaN
Sample(hm, idx) == IF idx + 1 \in 1..Len(hm.data) THEN hm.data[idx + 1] ELSE NaN

(***************************************************************************)
(* Heightmap sources: readR16Heightmap, readPngHeightmap and               *)
(* generateRandomHeightmap of heightmap.js.  A promise settles as          *)
(* [ok, heightmap] or as [ok, error].                                      *)
(***************************************************************************)
Resolved(hm) == [ok |-> TRUE, heightmap |-> hm]

Rejected(message) == [ok |-> FALSE, error |-> message]

\* GetUint16 reading the high byte first
GetUint16BigEndian(buffer, offset) == 256 * buffer[offset + 1] + buffer[offset + 2]

\* dataView.getUint16(offset, true)
GetUint16(buffer, offset) == buffer[offset + 1] + 256 * buffer[offset + 2]

\* dataView.getUint32(offset, true)
GetUint32(buffer, offset) ==
  buffer[offset + 1] + 256 * buffer[offset + 2]
    + 65536 * buffer[offset + 3] + 16777216 * buffer[offset + 4]

\* readR16Heightmap on a file of the given bytes, readable or not; a
\* getUint32 past the end of the buffer throws a RangeError, which is caught
\* and whose message is appended; the samples are stored in a Float32Array
ReadR16Heightmap(readable, buffer) ==
  IF ~readable THEN Rejected("Failed to read file")
  ELSE IF Len(buffer) < 8
    THEN Rejected("Failed to parse R16 file: Offset is outside the bounds of the DataView")
  ELSE LET Decoded(width, height) ==
             IF Len(buffer) # 8 + width * height * 2
               THEN Rejected("Invalid R16 file size")
               ELSE Resolved(Heightmap(width, height,
                      [i \in 1..(width * height) |->
                         Fround(Frac(GetUint16(buffer, 8 + (i - 1) * 2), 65535))]))
       IN  With2(Decoded, GetUint32(buffer, 0), GetUint32(buffer, 4))

\* readPngHeightmap on a file the browser decodes to the given image: its
\* width, height and RGBA pixels (NULL: the image fails to load); the
\* samples are stored in a Float32Array
ReadPngHeightmap(image) ==
  IF image = NULL THEN Rejected("Failed to load image")
  ELSE Resolved(Heightmap(image.width, image.height,
         [i \in 1..(image.width * image.height) |->
            Fround(Frac(image.pixels[i][1], 255))]))

\* the little-endian bytes of a header field below 65536
HeaderField(n) == <<n % 256, n \div 256, 0, 0>>

\* the header fields of the files: 0, 1, 2 and 256
HeaderFields == {0, 1, 2, 256}

\* the sample words of the files: 0, 32768 and 65535 in little-endian bytes
SampleWords == {<<0, 0>>, <<0, 128>>, <<255, 255>>}

\* the bytes after the header: at most MaxSamples sample words, and the
\* same with a byte too many
RECURSIVE Payloads(_)
Payloads(n) ==
  IF n = 0 THEN {<<>>}
  ELSE Payloads(n - 1) \cup
         {p \o w : p \in {q \in Payloads(n - 1) : Len(q) = 2 * (n - 1)}, w \in SampleWords}

\* the bytes of the .r16 files: every header with every payload, with the
\* zero payloads a byte longer, and the files shorter than a header
R16Buffers ==
  LET headers == {HeaderField(w) \o HeaderField(h) : w, h \in HeaderFields}
      zeros   == {[i \in 1..n |-> 0] : n \in 1..(2 * MaxSamples + 1)}
  IN  {h \o p : h \in headers, p \in Payloads(MaxSamples) \cup zeros}
        \cup {[i \in 1..n |-> 1] : n \in 0..7}

File(name, ext, readable, bytes, image) ==
  [name |-> name, ext |-> ext, readable |-> readable, bytes |-> bytes, image |-> image]

\* the images of the files: gray and red pixels, one or two of them
Images ==
  LET px == {<<0, 0, 0, 255>>, <<255, 255, 255, 255>>, <<255, 0, 0, 255>>}
  IN  {[width |-> 1, height |-> 1, pixels |-> <<p>>] : p \in px}
        \cup {[width |-> 2, height |-> 1, pixels |-> <<p, q>>] : p, q \in px}

\* the files of the file dialog: .r16 files, readable or not, images that
\* load or not, and a file of another extension
Files ==
  {File("terrain.r16", "r16", TRUE, b, NULL) : b \in R16Buffers}
    \cup {File("terrain.r16", "r16", FALSE, <<>>, NULL)}
    \cup {File("terrain.png", "png", TRUE, <<>>, img) : img \in Images \cup {NULL}}
    \cup {File("terrain.jpeg", "jpeg", TRUE, <<>>, NULL),
          File("terrain.txt", "txt", TRUE, <<>>, NULL)}

\* grad3 of simplex2D
Grad3 ==
  << <<1, 1>>, <<0 - 1, 1>>, <<1, 0 - 1>>, <<0 - 1, 0 - 1>>,
     <<1, 0>>, <<0 - 1, 0>>, <<0, 1>>, <<0, 0 - 1>> >>

\* Math.abs(Math.floor(random * 8)) % 8 of getGradient, random being
\* Math.sin(ix * 12.9898 + iy * 78.233) * 43758.5453, for the lattice points
\* with ix and iy from -16 to 16: row iy + 17, column ix + 17
GradientIndex ==
  <<
    <<1, 2, 0, 0, 3, 6, 5, 0, 5, 4, 2, 3, 3, 5, 5, 3, 0, 5, 1, 5, 0, 3, 7, 4, 4, 0, 5, 2, 2, 1, 1, 7, 3>>,
    <<1, 0, 3, 5, 2, 3, 2, 5, 1, 1, 5, 7, 5, 6, 5, 7, 3, 5, 0, 5, 1, 2, 6, 6, 3, 0, 4, 2, 0, 5, 0, 1, 7>>,
    <<4, 6, 1, 1, 1, 0, 4, 5, 4, 6, 3, 4, 3, 2, 0, 5, 4, 6, 7, 3, 1, 1, 1, 5, 3, 0, 2, 0, 1, 1, 6, 0, 4>>,
    <<6, 0, 2, 6, 6, 7, 6, 1, 4, 1, 2, 4, 4, 4, 0, 2, 5, 5, 4, 6, 6, 1, 5, 0, 3, 5, 3, 0, 5, 3, 1, 5, 2>>,
    <<3, 5, 2, 5, 1, 7, 2, 2, 4, 7, 5, 5, 6, 0, 3, 3, 4, 5, 1, 5, 0, 3, 4, 0, 7, 0, 1, 0, 2, 3, 5, 5, 6>>,
    <<4, 0, 1, 3, 1, 5, 3, 3, 0, 6, 5, 0, 7, 6, 2, 1, 1, 7, 2, 0, 0, 4, 0, 4, 7, 4, 0, 5, 3, 3, 1, 1, 1>>,
    <<1, 1, 3, 7, 6, 7, 3, 1, 6, 4, 1, 5, 5, 1, 0, 1, 2, 6, 4, 6, 0, 6, 6, 1, 1, 4, 2, 0, 0, 4, 0, 3, 3>>,
    <<3, 4, 0, 1, 1, 5, 1, 5, 4, 3, 3, 5, 1, 5, 4, 3, 0, 0, 3, 5, 6, 2, 0, 4, 4, 1, 6, 0, 6, 7, 5, 7, 2>>,
    <<3, 2, 6, 1, 4, 2, 5, 1, 5, 7, 5, 7, 7, 6, 6, 0, 5, 0, 7, 6, 1, 1, 3, 4, 7, 4, 3, 2, 4, 7, 7, 5, 1>>,
    <<6, 5, 0, 5, 7, 0, 6, 0, 1, 7, 2, 4, 7, 5, 0, 1, 1, 1, 2, 6, 5, 1, 6, 5, 4, 1, 3, 2, 6, 5, 2, 0, 2>>,
    <<5, 1, 4, 0, 2, 7, 6, 4, 6, 2, 3, 1, 1, 7, 7, 1, 0, 0, 3, 2, 7, 7, 4, 4, 4, 4, 1, 3, 4, 7, 2, 3, 6>>,
    <<5, 6, 3, 5, 0, 3, 1, 0, 2, 0, 2, 6, 6, 7, 1, 2, 1, 1, 0, 3, 4, 0, 5, 4, 1, 0, 2, 0, 4, 4, 2, 7, 2>>,
    <<6, 5, 4, 7, 2, 2, 5, 4, 1, 4, 0, 3, 1, 1, 3, 1, 6, 7, 5, 7, 3, 3, 3, 2, 0, 4, 4, 6, 0, 5, 6, 0, 1>>,
    <<4, 2, 1, 2, 6, 6, 3, 7, 1, 7, 2, 0, 3, 0, 3, 4, 3, 7, 3, 6, 2, 5, 3, 1, 0, 5, 5, 3, 4, 2, 2, 2, 0>>,
    <<0, 2, 2, 6, 1, 0, 4, 3, 5, 5, 5, 5, 0, 3, 3, 7, 7, 2, 4, 6, 6, 1, 1, 7, 1, 6, 2, 6, 3, 2, 2, 2, 7>>,
    <<4, 3, 7, 4, 5, 5, 1, 5, 3, 3, 1, 1, 5, 4, 3, 2, 2, 3, 6, 6, 7, 6, 7, 1, 1, 5, 2, 6, 5, 2, 1, 4, 6>>,
    <<0, 4, 1, 0, 6, 1, 0, 3, 5, 2, 6, 4, 3, 5, 1, 0, 0, 7, 0, 4, 2, 3, 5, 1, 6, 4, 1, 2, 7, 1, 2, 3, 7>>,
    <<5, 3, 2, 3, 6, 7, 3, 6, 2, 2, 6, 5, 6, 5, 5, 2, 1, 3, 4, 5, 6, 2, 2, 4, 4, 4, 0, 4, 4, 3, 6, 2, 5>>,
    <<0, 3, 3, 1, 2, 5, 1, 5, 0, 6, 0, 2, 7, 7, 5, 3, 0, 0, 2, 2, 7, 4, 4, 4, 4, 4, 5, 1, 2, 7, 3, 3, 1>>,
    <<7, 1, 1, 1, 5, 4, 6, 6, 1, 2, 4, 4, 1, 5, 2, 6, 2, 3, 2, 1, 4, 1, 3, 0, 2, 0, 2, 5, 5, 1, 0, 1, 3>>,
    <<2, 1, 7, 6, 1, 5, 3, 3, 7, 1, 2, 2, 4, 0, 6, 0, 7, 2, 4, 0, 0, 2, 7, 3, 0, 3, 4, 3, 3, 0, 5, 6, 7>>,
    <<1, 6, 1, 3, 3, 1, 3, 1, 2, 5, 6, 1, 5, 2, 7, 0, 0, 1, 0, 6, 7, 7, 3, 1, 3, 1, 2, 4, 7, 4, 2, 5, 4>>,
    <<7, 4, 3, 0, 5, 4, 0, 3, 3, 3, 3, 6, 6, 3, 4, 1, 1, 2, 0, 0, 2, 0, 2, 1, 5, 3, 5, 6, 3, 1, 5, 2, 6>>,
    <<1, 7, 1, 4, 5, 1, 2, 2, 5, 6, 7, 2, 6, 7, 1, 0, 0, 0, 7, 4, 6, 3, 3, 0, 2, 1, 7, 1, 0, 4, 7, 4, 5>>,
    <<2, 6, 0, 0, 5, 3, 4, 3, 6, 3, 2, 0, 0, 5, 6, 1, 6, 1, 7, 7, 0, 0, 4, 6, 4, 0, 4, 1, 3, 0, 7, 3, 4>>,
    <<3, 6, 4, 6, 5, 7, 5, 0, 5, 5, 1, 3, 7, 6, 4, 1, 7, 2, 3, 4, 0, 4, 2, 4, 5, 6, 2, 6, 2, 2, 7, 3, 2>>,
    <<2, 4, 1, 5, 1, 1, 3, 5, 2, 0, 5, 5, 7, 5, 3, 5, 3, 2, 1, 2, 6, 6, 2, 5, 5, 0, 2, 6, 5, 6, 2, 2, 2>>,
    <<2, 2, 0, 2, 2, 4, 7, 3, 6, 3, 1, 5, 1, 1, 3, 0, 2, 0, 1, 5, 6, 7, 4, 5, 1, 4, 4, 6, 2, 4, 2, 1, 3>>,
    <<5, 4, 4, 4, 3, 1, 2, 1, 0, 1, 3, 2, 7, 4, 0, 4, 3, 2, 4, 1, 7, 6, 6, 0, 5, 1, 1, 6, 0, 4, 1, 4, 2>>,
    <<3, 6, 2, 4, 4, 7, 2, 4, 2, 7, 4, 2, 7, 7, 5, 6, 6, 3, 1, 3, 3, 3, 1, 0, 3, 0, 7, 0, 7, 7, 3, 1, 7>>,
    <<3, 7, 5, 0, 2, 1, 3, 1, 4, 6, 2, 2, 0, 2, 6, 5, 3, 4, 7, 3, 4, 5, 4, 7, 5, 6, 5, 7, 0, 0, 0, 5, 3>>,
    <<0, 2, 1, 6, 1, 1, 3, 7, 2, 5, 5, 1, 0, 6, 1, 6, 4, 0, 6, 7, 4, 6, 4, 0, 0, 4, 1, 4, 3, 6, 4, 1, 2>>,
    <<2, 6, 0, 0, 1, 1, 6, 1, 5, 5, 0, 4, 1, 4, 0, 4, 7, 2, 4, 4, 2, 4, 3, 5, 6, 1, 6, 7, 2, 7, 7, 1, 0>>
  >>

\* getGradient(ix, iy) of simplex2D
GetGradient(ix, iy) == Grad3[GradientIndex[iy + 17][ix + 17] + 1]

\* dot(g, x, y) of simplex2D
Dot(g, x, y) == Add(Mul(Int2Num(g[1]), x), Mul(Int2Num(g[2]), y))

\* contribution(ix, iy, x, y) of simplex2D
Contribution(ix, iy, x, y) ==
  LET Weighted(dx, dy) ==
        LET Falloff(t) ==
              IF Lt(t, Int2Num(0)) THEN Int2Num(0)
              ELSE Mul(Mul(Mul(t, t), Mul(t, t)), Dot(GetGradient(ix, iy), dx, dy))
        IN  With(Falloff, Sub(Sub(Half, Mul(dx, dx)), Mul(dy, dy)))
  IN  With2(Weighted, Sub(x, Int2Num(ix)), Sub(y, Int2Num(iy)))

\* simplex2D(x, y)
Simplex2D(x, y) ==
  LET Corners(ix0, iy0) ==
        Mul(Add(Add(Add(Contribution(ix0, iy0, x, y), Contribution(ix0 + 1, iy0, x, y)),
                    Contribution(ix0, iy0 + 1, x, y)),
                Contribution(ix0 + 1, iy0 + 1, x, y)),
            Int2Num(70))
  IN  With2(Corners, MathFloor(x), MathFloor(y))

\* the loop over the layers of noise of generateRandomHeightmap, from layer
\* i on
RECURSIVE NoiseLayers(_, _, _, _, _, _)
NoiseLayers(nx, ny, i, value, amplitude, frequency) ==
  IF i >= 6 THEN value
  ELSE NoiseLayers(nx, ny, i + 1,
         Add(value, Mul(amplitude, Simplex2D(Mul(nx, frequency), Mul(ny, frequency)))),
         Mul(amplitude, Half), Mul(frequency, Int2Num(2)))

\* generateRandomHeightmap(width, height) of heightmap.js: the samples are
\* stored in a Float32Array
RandomHeightmap(width, height) ==
  Heightmap(width, height,
    [i \in 1..(width * height) |->
       LET x == (i - 1) % width
           y == (i - 1) \div width
           value == NoiseLayers(Sub(Frac(x, width), Half),
                                Sub(Frac(y, height), Half),
                                0, Int2Num(0), Int2Num(1), Int2Num(1))
       IN  Fround(Mul(Add(value, Int2Num(1)), Half))])

\* the entries of the resolution select, scaled down to 1 and 2
Resolutions == {1, 2}

\* file.name.endsWith of the extensions handleFileSelect reads
Supported(file) == file.ext \in {"r16", "png", "jpg", "jpeg"}

\* the promise handleFileSelect awaits for a file
ReadHeightmap(file) ==
  IF file.ext = "r16"
    THEN ReadR16Heightmap(file.readable, file.bytes)
    ELSE ReadPngHeightmap(file.image)

\* the file chosen while the render controls are in use: an .r16 file of a
\* 2x2 grid with one raised corner
PreviewFiles ==
  { File("terrain.r16", "r16", TRUE,
         HeaderField(2) \o HeaderField(2) \o <<255, 255, 0, 0, 0, 0, 0, 0>>, NULL) }

\* the entry of the resolution select while the render controls are in use,
\* scaled down to 1: the grid of a single sample, which is flat
PreviewResolutions == {1}

\* the heightmap of generateDemoHeightmap
DemoHeightmap ==
  Calc("generateRandomHeightmap", [width |-> DemoResolution, height |-> DemoResolution])

\* the heightmaps loaded in a session: the demo heightmap, the 2x2 grid with
\* one raised corner that the file of PreviewFiles holds, and the single
\* sample 0.5 that the random button generates at a resolution of 1
SessionGrids ==
  { DemoHeightmap,
    Heightmap(2, 2, <<Int2Num(1), Int2Num(0), Int2Num(0), Int2Num(0)>>),
    Heightmap(1, 1, <<Half>>) }

(***************************************************************************)
(* Map scales, level counts and color schemes.                             *)
(***************************************************************************)
DEFAULT_MAP_SCALE ==
  [width_km |-> Int2Num(10), height_km |-> Int2Num(10), max_elevation_km |-> Int2Num(5)]

\* the scales of the model: the default, an anisotropic one, and one with a
\* negative elevation (the number inputs accept any number)
Scales ==
  { DEFAULT_MAP_SCALE,
    [width_km |-> Int2Num(4), height_km |-> Int2Num(2), max_elevation_km |-> Int2Num(1)],
    [width_km |-> Int2Num(2), height_km |-> Int2Num(4), max_elevation_km |-> Int2Num(0 - 1)] }

\* the scales entered in a session
SessionScales ==
  { DEFAULT_MAP_SCALE,
    [width_km |-> Int2Num(2), height_km |-> Int2Num(4), max_elevation_km |-> Int2Num(0 - 1)] }

\* the constructor's contourLevels, and the fallback of applyRenderParams
DefaultContourLevels == 20

\* the level counts of an extraction
LevelCounts == (0 - 1)..MaxLevels

\* the level counts entered in a session
SessionCounts == (0 - 1)..MaxSessionLevels

\* DEFAULT_COLOR_SCHEMES, which loadColorSchemes returns when nothing is
\* stored.  Of a scheme the model keeps the colour of the contour lines.
DEFAULT_COLOR_SCHEMES ==
  ("cyberpunk" :> [contour |-> "#00FFFF"])
    @@ ("neon" :> [contour |-> "#7DF9FF"])
    @@ ("holo" :> [contour |-> "#00BFFF"])
    @@ ("military" :> [contour |-> "#00FF00"])
    @@ ("alien" :> [contour |-> "#39FF14"])

\* the options of the colorScheme select in index.html
ColorSchemes == {"cyberpunk", "neon", "retro"}

\* scheme.contour of a color scheme, undefined for an object that has no
\* such property
ContourColor(scheme) ==
  IF "contour" \in DOMAIN scheme THEN scheme.contour ELSE "undefined"

\* JSON.parse(JSON.stringify(value)) of createNewColorScheme: {copy}, or {}
\* when it throws.  A scheme gives a copy of itself; Object.prototype, which
\* has no enumerable property, gives an empty object; a function and
\* undefined are stringified to undefined, which JSON.parse rejects
JsonCopy(value) ==
  IF value = Undefined THEN {}
  ELSE IF "inherited" \in DOMAIN value
    THEN (IF value.inherited = "__proto__" THEN {[kind |-> "object"]} ELSE {})
  ELSE {value}

(***************************************************************************)
(* TerrainRenderer.addContours.                                            *)
(***************************************************************************)
RECURSIVE FoldMin(_, _, _)
FoldMin(data, i, acc) ==
  IF i > Len(data) THEN acc
  ELSE With(LAMBDA m : FoldMin(data, i + 1, m), MathMin(acc, data[i]))

RECURSIVE FoldMax(_, _, _)
FoldMax(data, i, acc) ==
  IF i > Len(data) THEN acc
  ELSE With(LAMBDA m : FoldMax(data, i + 1, m), MathMax(acc, data[i]))

\* minHeight after the loop over heightmap.data
MinHeight(hm) == FoldMin(hm.data, 1, PosInfinity)

\* maxHeight after the loop over heightmap.data
MaxHeight(hm) == FoldMax(hm.data, 1, NegInfinity)

HeightRange(hm) == Sub(MaxHeight(hm), MinHeight(hm))

\* HasRange with the guard heightRange >= 0
HasRangeOrFlat(heightRange) == Leq(Int2Num(0), heightRange)

\* the guard of the level planning and of the scan
HasRange(heightRange) == Gt(heightRange, Int2Num(0))

\* LevelAt with the spacing i / count
LevelAtOverCount(minHeight, heightRange, count, i) ==
  Add(minHeight, Mul(Div(Int2Num(i), Int2Num(count)), heightRange))

\* levels[i] for the loop index i = 0 .. count-1
LevelAt(minHeight, heightRange, count, i) ==
  Add(minHeight, Mul(Div(Int2Num(i), Int2Num(count - 1)), heightRange))

\* the array `levels` after its loop
PlanLevels(minHeight, heightRange, count) ==
  [k \in 1..count |-> LevelAt(minHeight, heightRange, count, k - 1)]

\* Crosses with a sample equal to the level counted on neither side
CrossesStrict(v0, v1, scaledLevel) ==
  \/ Lt(v0, scaledLevel) /\ Gt(v1, scaledLevel)
  \/ Gt(v0, scaledLevel) /\ Lt(v1, scaledLevel)

\* Crosses with the first clause reduced to its test of the near end
CrossesOneSided(v0, v1, scaledLevel) ==
  \/ Leq(v0, scaledLevel)
  \/ Gt(v0, scaledLevel) /\ Leq(v1, scaledLevel)

\* Crosses with a sample equal to the level counted on both sides
CrossesInclusive(v0, v1, scaledLevel) ==
  \/ Leq(v0, scaledLevel) /\ Leq(scaledLevel, v1)
  \/ Leq(scaledLevel, v0) /\ Leq(v1, scaledLevel)

\* the test of an edge against the scaled level
Crosses(v0, v1, scaledLevel) ==
  \/ Leq(v0, scaledLevel) /\ Gt(v1, scaledLevel)
  \/ Gt(v0, scaledLevel) /\ Leq(v1, scaledLevel)

\* t = (scaledLevel - v0) / (v1 - v0)
Interpolate(v0, v1, scaledLevel) == Div(Sub(scaledLevel, v0), Sub(v1, v0))

\* the map coordinate of the grid coordinate p along an axis of `size` samples
\* and `km` kilometres: (p / size - 0.5) * km
MapCoord(p, size, km) == Mul(Sub(Div(p, Int2Num(size)), Half), km)

\* new THREE.Vector3(...) of a crossing at grid position (px, py)
Vector3(px, py, scaledLevel, hm, scale) ==
  [ x |-> MapCoord(px, hm.width, scale.width_km),
    y |-> scaledLevel,
    z |-> MapCoord(py, hm.height, scale.height_km) ]

\* what the crossing branch of an edge computes: the edge ("h": (x,y)-(x+1,y),
\* "v": (x,y)-(x,y+1)), its locals t, px, py and the pushed vector
Crossing(edge, x, y, v0, v1, scaledLevel, hm, scale) ==
  LET Pushed(t) ==
        LET px == IF edge = "h" THEN Add(Int2Num(x), t) ELSE Int2Num(x)
            py == IF edge = "h" THEN Int2Num(y) ELSE Add(Int2Num(y), t)
        IN  [ edge |-> edge, x |-> x, y |-> y, v0 |-> v0, v1 |-> v1,
              t |-> t, px |-> px, py |-> py,
              pos |-> Vector3(px, py, scaledLevel, hm, scale) ]
  IN  With(Pushed, Interpolate(v0, v1, scaledLevel))

\* the body of the two nested loops for the sample (x, y): the pushes it makes
CellPoints(hm, scale, scaledLevel, x, y) ==
  LET maxElevation == scale.max_elevation_km
      idx == y * hm.width + x
      Edge(edge, v0, v1) ==
        IF Crosses(v0, v1, scaledLevel)
          THEN <<Crossing(edge, x, y, v0, v1, scaledLevel, hm, scale)>>
          ELSE <<>>
      Edges(h00, h10, h01) == Edge("h", h00, h10) \o Edge("v", h00, h01)
  IN  With(LAMBDA h00 :
             With2(LAMBDA h10, h01 : Edges(h00, h10, h01),
                   Mul(Sample(hm, idx + 1), maxElevation),
                   Mul(Sample(hm, idx + hm.width), maxElevation)),
           Mul(Sample(hm, idx), maxElevation))

\* the number of passes of the two nested loops: none unless both
\* y < height - 1 and x < width - 1 have a solution
CellCount(hm) ==
  IF hm.width < 2 \/ hm.height < 2 THEN 0 ELSE (hm.width - 1) * (hm.height - 1)

\* CellAt with the loop over x outside the loop over y
CellAtColumnMajor(hm, c) == <<c \div (hm.height - 1), c % (hm.height - 1)>>

\* the sample (x, y) of pass c, counted from 0, of the two nested loops: the
\* loop over y outside, the loop over x inside
CellAt(hm, c) == <<c % (hm.width - 1), c \div (hm.width - 1)>>

\* the pushes of the passes c, c+1, ... of the two nested loops
RECURSIVE ScanFrom(_, _, _, _)
ScanFrom(hm, scale, scaledLevel, c) ==
  IF c >= CellCount(hm) THEN <<>>
  ELSE CellPoints(hm, scale, scaledLevel, CellAt(hm, c)[1], CellAt(hm, c)[2])
       \o ScanFrom(hm, scale, scaledLevel, c + 1)

\* the array `points` of a level after the scan
LevelPoints(hm, scale, level) ==
  With(LAMBDA scaledLevel : ScanFrom(hm, scale, scaledLevel, 0),
       Mul(level, scale.max_elevation_km))

\* the position of a vector in the Float32Array of a geometry
Float32Position(pos) == [x |-> Fround(pos.x), y |-> Fround(pos.y), z |-> Fround(pos.z)]

\* the position array that setFromPoints gives the geometry of the line of
\* a level
LineGeometry(pts) == [k \in 1..Len(pts) |-> Float32Position(pts[k].pos)]

\* the THREE.Line of a geometry, in the colour of the contour lines
Line(geometry, scheme) ==
  [kind |-> "line", color |-> ContourColor(scheme), points |-> geometry]

\* whether a level's points become a line of the contour group
MakesLine(pts) == Len(pts) > 1

\* the geometries of the lines of the levels k, k+1, ...
RECURSIVE GeometriesFrom(_, _)
GeometriesFrom(pointsPerLevel, k) ==
  IF k > Len(pointsPerLevel) THEN <<>>
  ELSE With(LAMBDA pts : IF MakesLine(pts) THEN <<LineGeometry(pts)>> ELSE <<>>,
            pointsPerLevel[k])
       \o GeometriesFrom(pointsPerLevel, k + 1)

\* the geometries of the lines the loop over the levels builds
ContourGeometries(pointsPerLevel) == GeometriesFrom(pointsPerLevel, 1)

\* the contour group of the lines of the given geometries
GroupOf(geometries, scheme) ==
  [ kind |-> "contours",
    children |-> [j \in 1..Len(geometries) |-> Line(geometries[j], scheme)] ]

\* the contour group after the loop over the levels
ContourGroup(pointsPerLevel, scheme) ==
  GroupOf(ContourGeometries(pointsPerLevel), scheme)

\* whether addContours goes past its first line
ContoursWanted(hm, count) == hm # NULL /\ count > 0

\* addContours up to its lines, as a function of the fields it reads:
\* whether it goes on to install a group, and its locals `levels` and
\* `points`
AddContoursScan(hm, scale, count) ==
  LET none == [installs |-> FALSE, levels |-> <<>>, points |-> <<>>]
      Scanned(lv) ==
        With(LAMBDA pp : [installs |-> TRUE, levels |-> lv, points |-> pp],
             [k \in 1..Len(lv) |-> LevelPoints(hm, scale, lv[k])])
      Planned(minHeight, heightRange) ==
        IF HasRange(heightRange)
          THEN With(Scanned, PlanLevels(minHeight, heightRange, count))
          ELSE none
  IN  IF ContoursWanted(hm, count)
        THEN With2(Planned, MinHeight(hm), HeightRange(hm))
        ELSE none

(***************************************************************************)
(* TerrainRenderer.renderTerrain and the objects it puts in the scene.     *)
(***************************************************************************)
\* the terrain mesh: a plane of width-1 by height-1 segments over the map,
\* vertex i raised to data[i] * max_elevation_km when data has an i-th
\* sample; the position array of the geometry is a Float32Array
Terrain(hm, scale) ==
  [ kind |-> "terrain",
    size |-> <<scale.width_km, scale.height_km>>,
    segments |-> <<hm.width - 1, hm.height - 1>>,
    z |-> [k \in 1..(hm.width * hm.height) |->
             IF k - 1 < Len(hm.data)
               THEN Fround(Mul(hm.data[k], scale.max_elevation_km))
               ELSE Int2Num(0)] ]

\* the reference grid of addGrid
GridHelper(scale) ==
  [kind |-> "grid", size |-> MathMax(scale.width_km, scale.height_km), divisions |-> 10]

\* scene.remove(obj): the children without obj
RECURSIVE SceneRemove(_, _)
SceneRemove(children, obj) ==
  IF children = <<>> THEN <<>>
  ELSE IF Head(children) = obj THEN Tail(children)
  ELSE <<Head(children)>> \o SceneRemove(Tail(children), obj)

\* RemoveIfSet that leaves the object in the scene
KeepInScene(children, ref) == children

\* scene.remove(ref) guarded by `if (ref)`
RemoveIfSet(children, ref) == IF ref # NULL THEN SceneRemove(children, ref) ELSE children

\* GetTerrainInfo with the range scaled to metres without the elevation
GetTerrainInfoUnscaled(hm, scale) ==
  IF hm = NULL THEN NULL
  ELSE LET Info(minHeight, maxHeight) ==
             LET maxElevation == scale.max_elevation_km
             IN  [ minElevation   |-> Mul(Mul(minHeight, maxElevation), Int2Num(1000)),
                   maxElevation   |-> Mul(Mul(maxHeight, maxElevation), Int2Num(1000)),
                   elevationRange |-> Mul(Sub(maxHeight, minHeight), Int2Num(1000)),
                   mapWidth       |-> scale.width_km,
                   mapHeight      |-> scale.height_km ]
       IN  With2(Info, MinHeight(hm), MaxHeight(hm))

\* getTerrainInfo with the fields hm and scale (resolution, which it echoes,
\* is not a field of the model)
GetTerrainInfo(hm, scale) ==
  IF hm = NULL THEN NULL
  ELSE LET Info(minHeight, maxHeight) ==
             LET maxElevation == scale.max_elevation_km
                 heightRange  == Sub(maxHeight, minHeight)
             IN  [ minElevation   |-> Mul(Mul(minHeight, maxElevation), Int2Num(1000)),
                   maxElevation   |-> Mul(Mul(maxHeight, maxElevation), Int2Num(1000)),
                   elevationRange |-> Mul(Mul(heightRange, maxElevation), Int2Num(1000)),
                   mapWidth       |-> scale.width_km,
                   mapHeight      |-> scale.height_km ]
       IN  With2(Info, MinHeight(hm), MaxHeight(hm))

\* renderTerrain up to the head of the loop of addContours: the mesh, whether
\* the guard heightRange > 0 lets the loop be entered, and `levels`
LoopHead(hm, scale, count) ==
  With2(LAMBDA minHeight, heightRange :
          [ mesh    |-> Terrain(hm, scale),
            entered |-> HasRange(heightRange),
            levels  |-> IF HasRange(heightRange)
                          THEN PlanLevels(minHeight, heightRange, count) ELSE <<>> ],
        MinHeight(hm), HeightRange(hm))

\* what renderTerrain computes from the fields it reads: the mesh, the
\* locals of addContours, the helper of addGrid and the terrain info
Rendering(hm, scale, count) ==
  With(LAMBDA scan :
         [ mesh       |-> Terrain(hm, scale),
           scan       |-> scan,
           geometries |-> ContourGeometries(scan.points),
           helper     |-> GridHelper(scale),
           info       |-> GetTerrainInfo(hm, scale) ],
       AddContoursScan(hm, scale, count))

\* the fields renderTerrain reads in a session
SessionKeys ==
  [heightmap : SessionGrids, mapScale : SessionScales,
   contourLevels : SessionCounts \cup {DefaultContourLevels}]

Calc(op, args) ==
  CHOOSE result \in
    {CASE op = "lin" ->
            \* the limbs i, i+1, ... of a * k + b * j + carry, which is not
            \* negative, for k and j of magnitude 2^15 at most
            IF x.i > Len(x.a) /\ x.i > Len(x.b)
              THEN (IF x.carry = 0 THEN <<>> ELSE <<x.carry>>)
              ELSE CHOOSE r \in
                     {<<v % 32768>>
                        \o Calc("lin", [x EXCEPT !.i = @ + 1, !.carry = v \div 32768]) :
                      v \in {(IF x.i <= Len(x.a) THEN x.a[x.i] * x.k ELSE 0)
                               + (IF x.i <= Len(x.b) THEN x.b[x.i] * x.j ELSE 0)
                               + x.carry}} : TRUE
       [] op = "norm" ->
            \* a without its highest limbs that are 0
            IF x.a = <<>> THEN <<>>
            ELSE IF x.a[Len(x.a)] # 0 THEN x.a
            ELSE Calc("norm", [a |-> SubSeq(x.a, 1, Len(x.a) - 1)])
       [] op = "divsmall" ->
            \* quotient q and remainder r of the limbs i, i-1, ... 1 of a,
            \* after the remainder rem of the limbs above them, by d <= 2^15
            IF x.i = 0 THEN [q |-> <<>>, r |-> x.rem]
            ELSE CHOOSE r \in
                   {[q |-> low.q \o <<(x.rem * 32768 + x.a[x.i]) \div x.d>>, r |-> low.r] :
                    low \in {Calc("divsmall",
                                  [x EXCEPT !.i = @ - 1,
                                            !.rem = (x.rem * 32768 + x.a[x.i]) % x.d])}} : TRUE
       [] op = "shr" ->
            \* floor(a / 2^k)
            Calc("norm",
                 [a |-> Calc("divsmall",
                             [a |-> SubSeq(x.a, x.k \div 15 + 1, Len(x.a)),
                              d |-> 2 ^ (x.k % 15),
                              i |-> Len(x.a) - Min(Len(x.a), x.k \div 15),
                              rem |-> 0]).q])
       [] op = "shl" ->
            \* a * 2^k
            [i \in 1..(x.k \div 15) |-> 0]
              \o Calc("lin", [a |-> x.a, k |-> 2 ^ (x.k % 15), b |-> <<>>, j |-> 0,
                              i |-> 1, carry |-> 0])
       [] op = "bitlen" ->
            \* the number of bits of a
            IF x.a = <<>> THEN 0 ELSE 15 * (Len(x.a) - 1) + Bits(x.a[Len(x.a)])
       [] op = "bit" ->
            \* bit i of a, bit 0 being the lowest
            IF x.i \div 15 >= Len(x.a) THEN 0
            ELSE (x.a[x.i \div 15 + 1] \div 2 ^ (x.i % 15)) % 2
       [] op = "lowzeros" ->
            \* the number of bits at the low end of a # 0 that are 0, from
            \* limb i on
            IF x.a[x.i] = 0 THEN 15 + Calc("lowzeros", [x EXCEPT !.i = @ + 1])
            ELSE IF x.a[x.i] % 2 = 0
              THEN 1 + Calc("lowzeros", [x EXCEPT !.a[x.i] = @ \div 2])
            ELSE 0
       [] op = "cmp" ->
            \* -1, 0 or 1 as a < b, a = b or a > b, from limb i down when
            \* both have i limbs
            IF Len(x.a) # Len(x.b) THEN (IF Len(x.a) < Len(x.b) THEN 0 - 1 ELSE 1)
            ELSE IF x.i = 0 THEN 0
            ELSE IF x.a[x.i] # x.b[x.i] THEN (IF x.a[x.i] < x.b[x.i] THEN 0 - 1 ELSE 1)
            ELSE Calc("cmp", [x EXCEPT !.i = @ - 1])
       [] op = "mul" ->
            \* a * b
            IF x.b = <<>> THEN <<>>
            ELSE Calc("lin", [a |-> x.a, k |-> x.b[1],
                              b |-> <<0>> \o Calc("mul", [a |-> x.a, b |-> Tail(x.b)]),
                              j |-> 1, i |-> 1, carry |-> 0])
       [] op = "quotlimb" ->
            \* the largest of q .. q + 2^(j+1) - 1 whose product with d is
            \* r at most
            IF x.j < 0 THEN x.q
            ELSE CHOOSE r \in
                   {IF Calc("cmp", [a |-> p, b |-> x.r, i |-> Len(p)]) <= 0
                      THEN Calc("quotlimb", [x EXCEPT !.q = @ + 2 ^ x.j, !.j = @ - 1])
                      ELSE Calc("quotlimb", [x EXCEPT !.j = @ - 1]) :
                    p \in {Calc("norm",
                                [a |-> Calc("lin", [a |-> x.d, k |-> x.q + 2 ^ x.j, b |-> <<>>,
                                                    j |-> 0, i |-> 1, carry |-> 0])])}} : TRUE
       [] op = "divlong" ->
            \* quotient q and remainder r of the limbs i, i-1, ... 1 of n,
            \* after the remainder rem of the limbs above them, by d
            IF x.i = 0 THEN [q |-> <<>>, r |-> x.rem]
            ELSE CHOOSE r \in
                   {CHOOSE s \in
                      {[q |-> low.q \o <<ql>>, r |-> low.r] :
                       low \in {Calc("divlong",
                                     [x EXCEPT !.i = @ - 1,
                                               !.rem = Calc("norm",
                                                 [a |-> Calc("lin",
                                                    [a |-> top, k |-> 1, b |-> x.d, j |-> 0 - ql,
                                                     i |-> 1, carry |-> 0])])])}} : TRUE :
                    top \in {Calc("norm", [a |-> <<x.n[x.i]>> \o x.rem])},
                    ql \in {Calc("quotlimb",
                                 [r |-> Calc("norm", [a |-> <<x.n[x.i]>> \o x.rem]),
                                  d |-> x.d, q |-> 0, j |-> 14])}} : TRUE
       [] op = "div" ->
            \* quotient n \div d and whether the division is exact
            IF Len(x.d) = 1
              THEN CHOOSE r \in
                     {[q |-> Calc("norm", [a |-> s.q]), exact |-> s.r = 0] :
                      s \in {Calc("divsmall",
                                  [a |-> x.n, d |-> x.d[1], i |-> Len(x.n), rem |-> 0])}} : TRUE
              ELSE CHOOSE r \in
                     {[q |-> Calc("norm", [a |-> s.q]), exact |-> s.r = <<>>] :
                      s \in {Calc("divlong",
                                  [n |-> x.n, d |-> x.d, i |-> Len(x.n), rem |-> <<>>])}} : TRUE
       [] op = "number" ->
            \* the number s * m * 2^e, which needs no rounding
            CHOOSE r \in
              {IF n = <<>> THEN Zero(x.s)
               ELSE CHOOSE c \in
                      {[k |-> "num", s |-> x.s,
                        m |-> IF z = 0 THEN n ELSE Calc("shr", [a |-> n, k |-> z]),
                        e |-> x.e + z] :
                       z \in {Calc("lowzeros", [a |-> n, i |-> 1])}} : TRUE :
               n \in {Calc("norm", [a |-> x.m])}} : TRUE
       [] op = "kept" ->
            \* the nearest to the odd m among the multiples of 2^drop, ties
            \* to the even one, as a multiple of 2^drop
            CHOOSE r \in
              {IF (IF x.drop = 1 THEN Calc("bit", [a |-> h, i |-> 0])
                   ELSE Calc("bit", [a |-> x.m, i |-> x.drop - 1])) = 1
                 THEN Calc("lin", [a |-> h, k |-> 1, b |-> <<1>>, j |-> 1, i |-> 1, carry |-> 0])
                 ELSE h :
               h \in {Calc("shr", [a |-> x.m, k |-> x.drop])}} : TRUE
       [] op = "nearest" ->
            \* s * m * 2^e rounded to the nearest number of `precision` bits
            \* whose lowest bit is worth 2^low at least and whose highest
            \* 2^high at most
            CHOOSE r \in
              {IF c.m = <<>> THEN c
               ELSE CHOOSE v \in
                      {IF n.m # <<>> /\ n.e + Calc("bitlen", [a |-> n.m]) - 1 > x.high
                         THEN Infinity(x.s)
                         ELSE n :
                       n \in {IF unit <= c.e THEN c
                              ELSE Calc("number",
                                        [s |-> x.s,
                                         m |-> Calc("kept", [m |-> c.m, drop |-> unit - c.e]),
                                         e |-> unit]) :
                              unit \in {Max(c.e + Calc("bitlen", [a |-> c.m]) - x.precision,
                                            x.low)}}} : TRUE :
               c \in {Calc("number", [s |-> x.s, m |-> x.m, e |-> x.e])}} : TRUE
       [] op = "double" ->
            \* s * m * 2^e as a number
            Calc("nearest", [s |-> x.s, m |-> x.m, e |-> x.e,
                             precision |-> 53, low |-> 0 - 1074, high |-> 1023])
       [] op = "top" ->
            \* the exponent above the highest bit of the finite a # 0
            x.a.e + Calc("bitlen", [a |-> x.a.m])
       [] op = "within" ->
            \* b as far as its sum with a goes: when b is below a quarter of
            \* the last of the 53 bits of a, a number of the sign of b that
            \* is so as well
            IF Calc("top", [a |-> x.a]) - Calc("top", [a |-> x.b]) > 64
              THEN [x.b EXCEPT !.m = <<1>>, !.e = Calc("top", [a |-> x.a]) - 66]
              ELSE x.b
       [] op = "aligned" ->
            \* the sum of the finite a and b that are not 0
            CHOOSE r \in
              {CHOOSE s \in
                 {IF x.a.s = x.b.s
                    THEN Calc("double",
                              [s |-> x.a.s, e |-> Min(x.a.e, x.b.e),
                               m |-> Calc("lin", [a |-> p, k |-> 1, b |-> q, j |-> 1,
                                                  i |-> 1, carry |-> 0])])
                  ELSE IF order = 0 THEN Zero(1)
                  ELSE IF order > 0
                    THEN Calc("double",
                              [s |-> x.a.s, e |-> Min(x.a.e, x.b.e),
                               m |-> Calc("lin", [a |-> p, k |-> 1, b |-> q, j |-> 0 - 1,
                                                  i |-> 1, carry |-> 0])])
                  ELSE Calc("double",
                            [s |-> x.b.s, e |-> Min(x.a.e, x.b.e),
                             m |-> Calc("lin", [a |-> q, k |-> 1, b |-> p, j |-> 0 - 1,
                                                i |-> 1, carry |-> 0])]) :
                  order \in {Calc("cmp", [a |-> p, b |-> q, i |-> Len(p)])}} : TRUE :
               p \in {Calc("shl", [a |-> x.a.m, k |-> x.a.e - Min(x.a.e, x.b.e)])},
               q \in {Calc("shl", [a |-> x.b.m, k |-> x.b.e - Min(x.a.e, x.b.e)])}} : TRUE
       [] op = "plus" ->
            \* a + b
            IF IsNaN(x.a) \/ IsNaN(x.b) THEN NaN
            ELSE IF x.a.k = "inf" /\ x.b.k = "inf" THEN (IF x.a.s = x.b.s THEN x.a ELSE NaN)
            ELSE IF x.a.k = "inf" THEN x.a
            ELSE IF x.b.k = "inf" THEN x.b
            ELSE IF x.a.m = <<>> /\ x.b.m = <<>>
              THEN Zero(IF x.a.s < 0 /\ x.b.s < 0 THEN 0 - 1 ELSE 1)
            ELSE IF x.a.m = <<>> THEN x.b
            ELSE IF x.b.m = <<>> THEN x.a
            ELSE Calc("aligned", [a |-> Calc("within", [a |-> x.b, b |-> x.a]),
                                  b |-> Calc("within", [a |-> x.a, b |-> x.b])])
       [] op = "times" ->
            \* a * b
            IF IsNaN(x.a) \/ IsNaN(x.b) THEN NaN
            ELSE IF x.a.k = "inf" \/ x.b.k = "inf"
              THEN (IF IsZero(x.a) \/ IsZero(x.b) THEN NaN ELSE Infinity(x.a.s * x.b.s))
            ELSE IF x.a.m = <<>> \/ x.b.m = <<>> THEN Zero(x.a.s * x.b.s)
            ELSE Calc("double", [s |-> x.a.s * x.b.s, e |-> x.a.e + x.b.e,
                                 m |-> Calc("mul", [a |-> x.a.m, b |-> x.b.m])])
       [] op = "quotient" ->
            \* the quotient of the finite a and b that are not 0: a * 2^shift
            \* \div b has 55 bits or more, and a bit below them tells of a
            \* remainder
            CHOOSE r \in
              {Calc("double",
                    [s |-> x.a.s * x.b.s, e |-> x.a.e - x.b.e - x.shift - 1,
                     m |-> Calc("lin", [a |-> d.q, k |-> 2, b |-> <<>>, j |-> 0, i |-> 1,
                                        carry |-> IF d.exact THEN 0 ELSE 1])]) :
               d \in {Calc("div", [n |-> Calc("shl", [a |-> x.a.m, k |-> x.shift]),
                                   d |-> x.b.m])}} : TRUE
       [] op = "over" ->
            \* a / b: x/0 is an infinity for x # 0 and NaN for x = 0
            IF IsNaN(x.a) \/ IsNaN(x.b) THEN NaN
            ELSE IF x.a.k = "inf"
              THEN (IF x.b.k = "inf" THEN NaN ELSE Infinity(x.a.s * x.b.s))
            ELSE IF x.b.k = "inf" THEN Zero(x.a.s * x.b.s)
            ELSE IF x.b.m = <<>>
              THEN (IF x.a.m = <<>> THEN NaN ELSE Infinity(x.a.s * x.b.s))
            ELSE IF x.a.m = <<>> THEN Zero(x.a.s * x.b.s)
            ELSE Calc("quotient",
                      [a |-> x.a, b |-> x.b,
                       shift |-> 55 + Calc("bitlen", [a |-> x.b.m])
                                    - Calc("bitlen", [a |-> x.a.m])])
       [] op = "magnitudes" ->
            \* -1, 0 or 1 as |a| < |b|, |a| = |b| or |a| > |b|, for finite
            \* a and b
            IF x.a.m = <<>> \/ x.b.m = <<>>
              THEN (IF x.a.m = x.b.m THEN 0 ELSE IF x.a.m = <<>> THEN 0 - 1 ELSE 1)
            ELSE IF Calc("top", [a |-> x.a]) # Calc("top", [a |-> x.b])
              THEN (IF Calc("top", [a |-> x.a]) < Calc("top", [a |-> x.b]) THEN 0 - 1 ELSE 1)
            ELSE CHOOSE r \in
                   {Calc("cmp", [a |-> p, b |-> q, i |-> Len(p)]) :
                    p \in {Calc("shl", [a |-> x.a.m, k |-> x.a.e - Min(x.a.e, x.b.e)])},
                    q \in {Calc("shl", [a |-> x.b.m, k |-> x.b.e - Min(x.a.e, x.b.e)])}} : TRUE
       [] op = "lesseq" ->
            \* a <= b: false when either side is NaN, true of the two zeros
            /\ ~IsNaN(x.a)
            /\ ~IsNaN(x.b)
            /\ IF x.a.k = "inf" THEN x.a.s < 0 \/ (x.b.k = "inf" /\ x.b.s > 0)
               ELSE IF x.b.k = "inf" THEN x.b.s > 0
               ELSE IF x.a.m = <<>> /\ x.b.m = <<>> THEN TRUE
               ELSE IF x.a.s # x.b.s THEN x.a.s < x.b.s
               ELSE x.a.s * Calc("magnitudes", x) <= 0
       [] op = "integer" ->
            \* the integer below 2^31 that the limbs of a make
            IF x.a = <<>> THEN 0 ELSE x.a[1] + 32768 * Calc("integer", [a |-> Tail(x.a)])
       [] op = "floor" ->
            \* Math.floor(a) of a finite a, as an integer
            IF x.a.e >= 0
              THEN x.a.s * Calc("integer", [a |-> Calc("shl", [a |-> x.a.m, k |-> x.a.e])])
            ELSE IF x.a.s > 0
              THEN Calc("integer", [a |-> Calc("shr", [a |-> x.a.m, k |-> 0 - x.a.e])])
            ELSE 0 - Calc("integer", [a |-> Calc("shr", [a |-> x.a.m, k |-> 0 - x.a.e])]) - 1
       [] op = "run" ->
            \* Calc(x.op, x.args), looked up where it has been made already
            CHOOSE r \in
              {IF hits = {} THEN Calc(x.op, x.args) ELSE (CHOOSE p \in hits : TRUE)[2] :
               hits \in {{p \in SessionResults : p[1] = <<x.op, x.args>>}}} : TRUE
       [] op = "renderTerrain" ->
            \* what renderTerrain computes
            Rendering(x.heightmap, x.mapScale, x.contourLevels)
       [] op = "generateRandomHeightmap" -> RandomHeightmap(x.width, x.height)
       [] op = "readHeightmap" -> ReadHeightmap(x.file)
       [] op = "levelPoints" -> LevelPoints(x.heightmap, x.mapScale, x.level)
       [] op = "loopHead" -> LoopHead(x.heightmap, x.mapScale, x.contourLevels)
       [] op = "cell" -> CellPoints(x.heightmap, x.mapScale, Mul(x.level, x.mapScale.max_elevation_km), x.x, x.y) :
     x \in {args}} : TRUE


\* the computations of a session's handlers
SessionInputs ==
  ({"renderTerrain"} \X SessionKeys)
    \cup ({"generateRandomHeightmap"} \X {[width |-> r, height |-> r] : r \in Resolutions})
    \cup ({"readHeightmap"} \X {[file |-> f] : f \in PreviewFiles})

\* the results of these computations, each made once
SessionResults == {<<c, Calc(c[1], c[2])>> : c \in SessionInputs}

\* Calc(op, args), looked up where it has been made already
Run(op, args) == Calc("run", [op |-> op, args |-> args])

\* renderTerrain, run with the fields hm, scale, scheme, count and sg that the
\* calling setter has just assigned; its return value is getTerrainInfo()
RenderTerrain(hm, scale, scheme, count, sg) ==
  IF hm = NULL
  THEN UNCHANGED <<terrain, contours, grid, scene, levels, points, terrainInfo>>
  ELSE \E r \in {Run("renderTerrain", [heightmap |-> hm, mapScale |-> scale, contourLevels |-> count])} :
       \E group \in {GroupOf(r.geometries, scheme)} :
       LET cleared == RemoveIfSet(RemoveIfSet(RemoveIfSet(scene, terrain), contours), grid)
           withMesh     == Append(cleared, r.mesh)
           withContours == IF r.scan.installs THEN Append(withMesh, group) ELSE withMesh
       IN  /\ terrain' = r.mesh
           /\ contours' = (IF r.scan.installs THEN group ELSE contours)
           /\ grid' = (IF sg THEN r.helper ELSE grid)
           /\ scene' = (IF sg THEN Append(withContours, r.helper) ELSE withContours)
           /\ levels' = r.scan.levels
           /\ points' = r.scan.points
           /\ terrainInfo' = r.info

(***************************************************************************)
(* The handlers.                                                           *)
(***************************************************************************)
\* an optional field of a params object: {} when undefined, {v} when v
Given(field, current) == IF field = {} THEN current ELSE CHOOSE v \in field : TRUE

\* the request of a click on a button that generates its heightmap g at once
GridRequest(g) == [kind |-> "grid", file |-> NULL, heightmap |-> g]

\* the request of the choice of a file in the file dialog
FileRequest(file) == [kind |-> "file", file |-> file, heightmap |-> NULL]

\* the body of TerrainVisualizerApp.setHeightmap(g), the renderer's
\* setHeightmap included
AppSetHeightmap(g) ==
  /\ appHeightmap' = g
  /\ heightmap' = g
  /\ RenderTerrain(g, mapScale, RendererColorScheme, contourLevels, showGrid)
  /\ UNCHANGED <<mapScale, colorScheme, colorSchemes, contourLevels, showGrid>>

\* TerrainVisualizerApp.setHeightmap(g) called with a heightmap at hand, as
\* generateDemoHeightmap and generateRandomHeightmap call it
SetHeightmap(g) ==
  /\ AppSetHeightmap(g)
  /\ reported' = "none"
  /\ requested' = (IF pending = <<>> THEN NULL ELSE GridRequest(g))
  /\ UNCHANGED <<scanned, fileInput, pending, probe>>

\* TerrainVisualizerApp.applyMapScale with the scale read from the inputs
ApplyMapScale(s) ==
  /\ mapScale' = s
  /\ RenderTerrain(heightmap, s, RendererColorScheme, contourLevels, showGrid)
  /\ reported' = "none"
  /\ UNCHANGED <<appHeightmap, heightmap, colorScheme, colorSchemes, contourLevels, showGrid>>
  /\ UNCHANGED loadVars

\* TerrainRenderer.setRenderParams(params)
SetRenderParams(params) ==
  LET count == Given(params.contourLevels, contourLevels)
      sg    == Given(params.showGrid, showGrid)
  IN  /\ contourLevels' = count
      /\ showGrid' = sg
      /\ RenderTerrain(heightmap, mapScale, RendererColorScheme, count, sg)
      /\ reported' = "none"
      /\ UNCHANGED <<appHeightmap, heightmap, mapScale, colorScheme, colorSchemes>>
      /\ UNCHANGED loadVars

\* parseInt(value) || 20, the parse result being {} for NaN and {k} for k
ParsedOrDefault(parsed) ==
  IF parsed = {} \/ parsed = {0} THEN DefaultContourLevels ELSE CHOOSE v \in parsed : TRUE

\* TerrainVisualizerApp.applyRenderParams with the inputs' contents
ApplyRenderParams(parsed, checked) ==
  /\ appHeightmap' = appHeightmap
  /\ SetRenderParams([contourLevels |-> {ParsedOrDefault(parsed)}, showGrid |-> {checked}])

\* TerrainVisualizerApp.changeColorScheme(name): nothing happens when
\* colorSchemes[name] is falsy; a name that colorSchemes inherits passes
ChangeColorScheme(name) ==
  /\ IF Truthy(SchemeLookup(colorSchemes, name))
       THEN /\ colorScheme' = name
            /\ RenderTerrain(heightmap, mapScale, SchemeLookup(colorSchemes, name),
                             contourLevels, showGrid)
       ELSE UNCHANGED <<colorScheme, terrain, contours, grid, scene, levels, points,
                        terrainInfo>>
  /\ reported' = "none"
  /\ UNCHANGED <<appHeightmap, heightmap, mapScale, colorSchemes, contourLevels, showGrid>>
  /\ UNCHANGED loadVars

\* TerrainVisualizerApp.saveColorScheme with the editor's input for the
\* colour of the contour lines: {v} when its value is v, {} when the editor
\* has not been opened yet and there is no such input.  Object.entries of
\* an inherited property is empty, and its TypeError for undefined leaves
\* the listener
SaveColorScheme(input) ==
  \E current \in {RendererColorScheme} :
    /\ IF current = Undefined
         THEN /\ reported' = "TypeError"
              /\ UNCHANGED <<colorSchemes, terrain, contours, grid, scene, levels, points,
                             terrainInfo>>
         ELSE \E scheme \in {IF "contour" \in DOMAIN current
                                THEN [current EXCEPT !.contour = Given(input, @)]
                                ELSE current} :
                /\ colorSchemes' =
                     (IF colorScheme \in DOMAIN colorSchemes
                        THEN [colorSchemes EXCEPT ![colorScheme] = scheme]
                        ELSE colorSchemes)
                /\ RenderTerrain(heightmap, mapScale, scheme, contourLevels, showGrid)
                /\ reported' = "none"
    /\ UNCHANGED <<appHeightmap, heightmap, mapScale, colorScheme, contourLevels, showGrid>>
    /\ UNCHANGED loadVars

\* TerrainVisualizerApp.createNewColorScheme with the answer to its
\* prompt, {name} or {} when the prompt is cancelled: a copy of the current
\* scheme under the new name, and changeColorScheme to it.  A name for
\* which colorSchemes[name] is truthy is refused; when the copy throws, the
\* SyntaxError of JSON.parse leaves the listener and nothing is stored
CreateNewColorScheme(answer) ==
  \E name \in {Given(answer, "")}, copy \in {JsonCopy(RendererColorScheme)} :
  /\ IF name = ""
       THEN /\ reported' = "none"
            /\ UNCHANGED <<colorScheme, colorSchemes, terrain, contours, grid, scene,
                           levels, points, terrainInfo>>
       ELSE IF Truthy(SchemeLookup(colorSchemes, name))
       THEN /\ reported' = "color scheme exists"
            /\ UNCHANGED <<colorScheme, colorSchemes, terrain, contours, grid, scene,
                           levels, points, terrainInfo>>
       ELSE IF copy = {}
       THEN /\ reported' = "SyntaxError"
            /\ UNCHANGED <<colorScheme, colorSchemes, terrain, contours, grid, scene,
                           levels, points, terrainInfo>>
       ELSE \E scheme \in copy :
            /\ colorSchemes' = colorSchemes @@ (name :> scheme)
            /\ colorScheme' = name
            /\ RenderTerrain(heightmap, mapScale, scheme, contourLevels, showGrid)
            /\ reported' = "none"
  /\ UNCHANGED <<appHeightmap, heightmap, mapScale, contourLevels, showGrid>>
  /\ UNCHANGED loadVars

\* RefreshPreview with the scaled heights written back into heightmap.data
RefreshPreviewInPlace ==
  /\ IF appHeightmap # NULL
       THEN /\ RenderTerrain(heightmap, mapScale, RendererColorScheme, contourLevels, showGrid)
            /\ heightmap' =
                 [heightmap EXCEPT !.data =
                    [i \in 1..Len(heightmap.data) |->
                       Mul(heightmap.data[i], mapScale.max_elevation_km)]]
            /\ appHeightmap' = heightmap'
       ELSE UNCHANGED <<appHeightmap, heightmap, terrain, contours, grid, scene, levels,
                        points, terrainInfo>>
  /\ reported' = "none"
  /\ UNCHANGED <<mapScale, colorScheme, colorSchemes, contourLevels, showGrid>>
  /\ UNCHANGED loadVars

\* TerrainVisualizerApp.refreshPreview: a render when the application holds
\* a heightmap, and a return without one
RefreshPreview ==
  /\ IF appHeightmap # NULL
       THEN RenderTerrain(heightmap, mapScale, RendererColorScheme, contourLevels, showGrid)
       ELSE UNCHANGED <<terrain, contours, grid, scene, levels, points, terrainInfo>>
  /\ reported' = "none"
  /\ UNCHANGED <<appHeightmap, heightmap, mapScale, colorScheme, colorSchemes, contourLevels, showGrid>>
  /\ UNCHANGED loadVars

\* how the promise of exportTerrainImage settles: with the image of the
\* canvas, or with the error of a canvas that cannot be exported
ExportOutcomes == {[ok |-> TRUE, image |-> "data:image/png"], Rejected("export failed")}

\* TerrainVisualizerApp.saveTerrainImage with the outcome of
\* exportTerrainImage, which moves the camera, renders a frame and moves the
\* camera back: the image is downloaded, or the error is alerted.  None of
\* the renderer's fields of the model is written
SaveTerrainImage(exported) ==
  /\ reported' = (IF exported.ok THEN "none" ELSE exported.error)
  /\ UNCHANGED <<appHeightmap, heightmap, mapScale, colorScheme, colorSchemes, contourLevels,
                 showGrid, terrain, contours, grid, scene, levels, points, terrainInfo>>
  /\ UNCHANGED loadVars

(***************************************************************************)
(* Loading a heightmap: the random button and the file input.              *)
(***************************************************************************)
\* TerrainVisualizerApp.generateRandomHeightmap with the number parsed from
\* the resolution select
GenerateRandomHeightmap(resolution) ==
  \E g \in {Run("generateRandomHeightmap", [width |-> resolution, height |-> resolution])} : SetHeightmap(g)

\* handleFileSelect from the choice of a file in the dialog to its await,
\* or to its return for a file of another extension
HandleFileSelect(file) ==
  /\ fileInput' = file.name
  /\ IF Supported(file)
       THEN /\ pending' = Append(pending, file)
            /\ requested' = FileRequest(file)
            /\ reported' = "none"
       ELSE /\ pending' = pending
            /\ requested' = requested
            /\ reported' = "unsupported format"
  /\ UNCHANGED <<appHeightmap, heightmap, mapScale, colorScheme, colorSchemes, contourLevels,
                 showGrid, terrain, contours, grid, scene, levels, points,
                 terrainInfo, scanned, probe>>

\* sequence s without its i-th element
RemoveAt(s, i) == SubSeq(s, 1, i - 1) \o SubSeq(s, i + 1, Len(s))

\* handleFileSelect from its await on: the read of pending[i] settles, the
\* heightmap is set or the failure is alerted, and the file input is reset
FileSettled(i) ==
  /\ i \in 1..Len(pending)
  /\ \E settled \in {Run("readHeightmap", [file |-> pending[i]])} :
       IF settled.ok
         THEN /\ AppSetHeightmap(settled.heightmap)
              /\ reported' = "none"
         ELSE /\ reported' = settled.error
              /\ UNCHANGED <<appHeightmap, heightmap, mapScale, colorScheme, colorSchemes,
                             contourLevels, showGrid, terrain, contours, grid, scene,
                             levels, points, terrainInfo>>
  /\ pending' = RemoveAt(pending, i)
  /\ requested' = (IF Len(pending) = 1 THEN NULL ELSE requested)
  /\ fileInput' = ""
  /\ UNCHANGED <<scanned, probe>>

(***************************************************************************)
(* The session: the application when init() has returned, driven by the    *)
(* handlers.                                                               *)
(***************************************************************************)
\* the fields of the application and of its renderer when
\* TerrainVisualizerApp.init() returns: the color schemes and the map scale
\* of an empty local storage, the renderer as constructed, and the demo
\* heightmap that generateDemoHeightmap has set and the renderer has rendered
AppInit ==
  \E r \in {Run("renderTerrain", [heightmap |-> DemoHeightmap, mapScale |-> DEFAULT_MAP_SCALE,
                                  contourLevels |-> DefaultContourLevels])} :
  \E group \in {GroupOf(r.geometries, DEFAULT_COLOR_SCHEMES["cyberpunk"])} :
    /\ appHeightmap = DemoHeightmap
    /\ heightmap = DemoHeightmap
    /\ mapScale = DEFAULT_MAP_SCALE
    /\ colorScheme = "cyberpunk"
    /\ colorSchemes = DEFAULT_COLOR_SCHEMES
    /\ contourLevels = DefaultContourLevels
    /\ showGrid = TRUE
    /\ terrain = r.mesh
    /\ contours = (IF r.scan.installs THEN group ELSE NULL)
    /\ grid = r.helper
    /\ scene = <<r.mesh>> \o (IF r.scan.installs THEN <<group>> ELSE <<>>) \o <<r.helper>>
    /\ levels = r.scan.levels
    /\ points = r.scan.points
    /\ reported = "none"
    /\ terrainInfo = r.info
    /\ scanned = <<>>

\* the application when init() has returned, before any event
Init ==
  /\ AppInit
  /\ probe = NULL
  /\ fileInput = ""
  /\ pending = <<>>
  /\ requested = NULL

\* the options of the colorScheme select: those of index.html and the one
\* createNewColorScheme appends for each scheme it creates
SchemeOptions == ColorSchemes \cup (DOMAIN colorSchemes \ DOMAIN DEFAULT_COLOR_SCHEMES)

\* the editor's input for the colour of the contour lines: none, and the
\* colour of the contour lines of the neon scheme
EditorInputs == {{}, {"#7DF9FF"}}

\* the answers to the prompt of createNewColorScheme: cancelled, empty, the
\* name of a scheme that exists, a name colorSchemes inherits and a new name
PromptAnswers == {{}, {""}, {"neon"}, {"constructor"}, {"mine"}}

\* the file dialog used while the render controls are in use, with no read
\* in progress
ChooseFile == pending = <<>> /\ \E file \in PreviewFiles : HandleFileSelect(file)

\* the listeners of bindEvents
Next ==
  \/ ChooseFile
  \/ \E i \in 1..Len(pending) : FileSettled(i)
  \/ \E resolution \in PreviewResolutions : GenerateRandomHeightmap(resolution)
  \/ \E s \in SessionScales : ApplyMapScale(s)
  \/ \E p \in {{}} \cup {{k} : k \in SessionCounts}, checked \in BOOLEAN :
       ApplyRenderParams(p, checked)
  \/ \E name \in SchemeOptions : ChangeColorScheme(name)
  \/ \E input \in EditorInputs : SaveColorScheme(input)
  \/ \E answer \in PromptAnswers : CreateNewColorScheme(answer)
  \/ RefreshPreview
  \/ \E exported \in ExportOutcomes : SaveTerrainImage(exported)

Spec == Init /\ [][Next]_vars

(***************************************************************************)
(* One extraction: the renderer holding any heightmap, level count and     *)
(* scale at the entry of renderTerrain, and the render that follows.       *)
(***************************************************************************)
ScanInit ==
  /\ heightmap \in Grids
  /\ appHeightmap = heightmap
  /\ mapScale \in Scales
  /\ colorScheme = "cyberpunk"
  /\ colorSchemes = DEFAULT_COLOR_SCHEMES
  /\ contourLevels \in LevelCounts
  /\ showGrid = TRUE
  /\ terrain = NULL
  /\ contours = NULL
  /\ grid = NULL
  /\ scene = <<>>
  /\ levels = <<>>
  /\ points = <<>>
  /\ reported = "none"
  /\ terrainInfo = NULL
  /\ scanned = <<>>
  /\ probe = NULL
  /\ fileInput = ""
  /\ pending = <<>>
  /\ requested = NULL

ScanNext == RefreshPreview

ScanSpec == ScanInit /\ [][ScanNext]_vars

(***************************************************************************)
(* One render of a heightmap read from a .r16 file of two samples, whose   *)
(* samples, scale and level count make the arithmetic of the level         *)
(* planning and of getTerrainInfo round.                                   *)
(***************************************************************************)
\* samples of a .r16 file as readR16Heightmap stores them
SurveySamples == {Fround(Frac(v, 65535)) : v \in {0, 1, 3, 32768, 65535}}

\* the heightmaps of a row and of a column of two such samples
SurveyGrids ==
  {Heightmap(d[1], d[2], <<a, b>>) :
     d \in {<<2, 1>>, <<1, 2>>}, a \in SurveySamples, b \in SurveySamples}

\* the default scale, one with an elevation of 0.1 km and one with a
\* negative elevation
SurveyScales ==
  { DEFAULT_MAP_SCALE,
    [width_km |-> Int2Num(10), height_km |-> Int2Num(10), max_elevation_km |-> Frac(1, 10)],
    [width_km |-> Int2Num(2), height_km |-> Int2Num(4), max_elevation_km |-> Int2Num(0 - 1)] }

\* the level counts: the two smallest that plan an interior, and the options
\* 10 and 20 of the contourLevels select
SurveyCounts == {2, 3, 10, DefaultContourLevels}

SurveyInit ==
  /\ heightmap \in SurveyGrids
  /\ appHeightmap = heightmap
  /\ mapScale \in SurveyScales
  /\ colorScheme = "cyberpunk"
  /\ colorSchemes = DEFAULT_COLOR_SCHEMES
  /\ contourLevels \in SurveyCounts
  /\ showGrid = TRUE
  /\ terrain = NULL
  /\ contours = NULL
  /\ grid = NULL
  /\ scene = <<>>
  /\ levels = <<>>
  /\ points = <<>>
  /\ reported = "none"
  /\ terrainInfo = NULL
  /\ scanned = <<>>
  /\ probe = NULL
  /\ fileInput = ""
  /\ pending = <<>>
  /\ requested = NULL

SurveySpec == SurveyInit /\ [][RefreshPreview]_vars

(***************************************************************************)
(* Sessions of loads alone, of the read of one file, and of overlapping    *)
(* loads.                                                                  *)
(***************************************************************************)
\* the files chosen in a session: .r16 files of a row of two samples, of a
\* single sample, with a width of 0, with a byte missing, shorter than a
\* header and unreadable, an image that loads and one that does not, and a
\* file of another extension
SessionFiles ==
  { File("terrain.r16", "r16", TRUE,
         HeaderField(2) \o HeaderField(1) \o <<0, 128, 255, 255>>, NULL),
    File("terrain.r16", "r16", TRUE, HeaderField(1) \o HeaderField(1) \o <<0, 0>>, NULL),
    File("terrain.r16", "r16", TRUE, HeaderField(0) \o HeaderField(2), NULL),
    File("terrain.r16", "r16", TRUE, HeaderField(1) \o HeaderField(1) \o <<0>>, NULL),
    File("terrain.r16", "r16", TRUE, <<1, 1, 1>>, NULL),
    File("terrain.r16", "r16", FALSE, <<>>, NULL),
    File("terrain.png", "png", TRUE, <<>>,
         [width |-> 2, height |-> 1, pixels |-> <<<<0, 0, 0, 255>>, <<255, 255, 255, 255>>>>]),
    File("terrain.png", "png", TRUE, <<>>, NULL),
    File("terrain.txt", "txt", TRUE, <<>>, NULL) }

\* the file dialog used with no read in progress
SelectFile == pending = <<>> /\ \E file \in SessionFiles : HandleFileSelect(file)

LoadNext ==
  \/ SelectFile
  \/ \E i \in 1..Len(pending) : FileSettled(i)
  \/ \E resolution \in Resolutions : GenerateRandomHeightmap(resolution)

\* the application after init(), loading heightmaps
LoadSpec == Init /\ [][LoadNext]_vars

\* the application awaiting the read of any one file, chosen right after
\* init() has returned
DecodeInit ==
  /\ AppInit
  /\ probe = NULL
  /\ \E file \in {f \in Files : Supported(f)} :
       /\ fileInput = file.name
       /\ pending = <<file>>
       /\ requested = FileRequest(file)

DecodeNext == \E i \in 1..Len(pending) : FileSettled(i)

DecodeSpec == DecodeInit /\ [][DecodeNext]_vars

\* the largest number of reads handleFileSelect awaits at a time
MaxInFlight == 2

\* the files chosen while reads are in progress: a .r16 file of a row of two
\* samples, an image of two pixels, and a .r16 file with a byte missing
RaceFiles ==
  { File("terrain.r16", "r16", TRUE,
         HeaderField(2) \o HeaderField(1) \o <<0, 128, 255, 255>>, NULL),
    File("terrain.png", "png", TRUE, <<>>,
         [width |-> 2, height |-> 1, pixels |-> <<<<0, 0, 0, 255>>, <<255, 255, 255, 255>>>>]),
    File("terrain.r16", "r16", TRUE, HeaderField(1) \o HeaderField(1) \o <<0>>, NULL) }

\* the file dialog used while earlier reads may still be in progress
SelectFileInFlight ==
  /\ Len(pending) < MaxInFlight
  /\ \E file \in RaceFiles : HandleFileSelect(file)

\* the reads settle in any order, and the buttons stay live meanwhile
RaceNext ==
  \/ SelectFileInFlight
  \/ \E i \in 1..Len(pending) : FileSettled(i)
  \/ \E resolution \in Resolutions : GenerateRandomHeightmap(resolution)

\* the application after init(), with overlapping loads
RaceSpec == Init /\ [][RaceNext]_vars

(***************************************************************************)
(* The loop over the levels, pass by pass.  levels holds the array the     *)
(* loop runs over, points[k] the array `points` of level k and scanned[k]  *)
(* the number of passes of the two nested loops made for level k.  The     *)
(* passes of different levels are taken in any order.                      *)
(***************************************************************************)
\* Slot with one array `points` shared by all the levels
SlotShared(k) == 1

\* the array a pass of level k pushes to: the `points` declared in the
\* iteration of level k
Slot(k) == k

\* one pass of the loop body for level k: the cell scanned[k]
ScanCell(k) ==
  /\ scanned[k] < CellCount(heightmap)
  /\ \E pushed \in {Calc("cell", [heightmap |-> heightmap, mapScale |-> mapScale, level |-> levels[k],
                                x |-> CellAt(heightmap, scanned[k])[1],
                                y |-> CellAt(heightmap, scanned[k])[2]])} :
       points' = [points EXCEPT ![Slot(k)] = @ \o pushed]
  /\ scanned' = [scanned EXCEPT ![k] = @ + 1]
  /\ UNCHANGED <<appHeightmap, heightmap, mapScale, colorScheme, colorSchemes, contourLevels,
                 showGrid, terrain, contours, grid, scene, levels, reported,
                 terrainInfo, fileInput, pending, requested, probe>>

ScanLevels == \E k \in 1..Len(levels) : ScanCell(k)

\* the renderer at the head of the loop over `levels` (line 196) in the
\* first render of a heightmap: renderTerrain has put the terrain mesh in the
\* scene, and addContours has passed its guards and planned its levels
AtLoopHead ==
  /\ appHeightmap = heightmap
  /\ colorScheme = "cyberpunk"
  /\ colorSchemes = DEFAULT_COLOR_SCHEMES
  /\ showGrid = TRUE
  /\ ContoursWanted(heightmap, contourLevels)
  /\ \E r \in {Calc("loopHead", [heightmap |-> heightmap, mapScale |-> mapScale,
                                  contourLevels |-> contourLevels])} :
       /\ r.entered
       /\ terrain = r.mesh
       /\ scene = <<r.mesh>>
       /\ levels = r.levels
       /\ points = [k \in 1..Len(r.levels) |-> <<>>]
       /\ scanned = [k \in 1..Len(r.levels) |-> 0]
  /\ contours = NULL
  /\ grid = NULL
  /\ reported = "none"
  /\ terrainInfo = NULL
  /\ fileInput = ""
  /\ pending = <<>>
  /\ requested = NULL
  /\ probe = NULL

\* heightmaps of several cells: a 3x3 grid with a peak in the middle, a 3x2
\* ramp and a 2x3 grid with a ridge
LevelwiseGrids ==
  { Heightmap(3, 3, <<Int2Num(0), Int2Num(0), Int2Num(0),
                      Int2Num(0), Int2Num(1), Int2Num(0),
                      Int2Num(0), Int2Num(0), Half>>),
    Heightmap(3, 2, <<Int2Num(0), Half, Int2Num(1),
                      Int2Num(1), Half, Int2Num(0)>>),
    Heightmap(2, 3, <<Int2Num(0), Int2Num(1),
                      Int2Num(1), Int2Num(0),
                      Int2Num(0), Int2Num(0)>>) }

\* the loop over the planned levels of a heightmap that is not flat
LevelwiseInit ==
  /\ heightmap \in LevelwiseGrids
  /\ mapScale \in SessionScales
  /\ contourLevels \in 1..MaxInterleaved
  /\ AtLoopHead

LevelwiseSpec == LevelwiseInit /\ [][ScanLevels]_vars

(***************************************************************************)
(* The scan of one level (the body of the loop over `levels`, lines 197 to *)
(* 234) taken by itself, as a function of the heightmap, the scale and the *)
(* level: the application after init(), with the arguments of the         *)
(* function in probe.                                                      *)
(***************************************************************************)
\* the levels handed to the scan: from -1 to 2 in steps of 1/2, inside and
\* outside the range of the samples
ProbeLevels == {Frac(k, 2) : k \in (0 - 2)..4}

\* the arguments of the scan, not applied yet
ProbeInputs ==
  [heightmap : Grids, mapScale : Scales, level : ProbeLevels, applied : {FALSE},
   points : {<<>>}]

ProbeInit ==
  /\ AppInit
  /\ fileInput = ""
  /\ pending = <<>>
  /\ requested = NULL
  /\ probe \in ProbeInputs

\* the scan applied to the arguments in probe
ScanLevel ==
  /\ probe # NULL
  /\ ~probe.applied
  /\ probe' = [probe EXCEPT
                 !.applied = TRUE,
                 !.points = Calc("levelPoints", [heightmap |-> probe.heightmap,
                                                 mapScale |-> probe.mapScale,
                                                 level |-> probe.level])]
  /\ UNCHANGED <<appHeightmap, heightmap, mapScale, colorScheme, colorSchemes, contourLevels,
                 showGrid, terrain, contours, grid, scene, levels, points, reported,
                 terrainInfo, scanned, fileInput, pending, requested>>

ProbeSpec == ProbeInit /\ [][ScanLevel]_vars

(***************************************************************************)
(* Properties.  Rendered: a render of a loaded heightmap has completed, so *)
(* that levels and points are those of its addContours call.               *)
(***************************************************************************)
Rendered == heightmap # NULL /\ terrain # NULL

\* the samples (x, y) whose two forward edges the scan tests
TestedSamples(hm) == (0..(hm.width - 2)) \X (0..(hm.height - 2))

\* index of the far end of the edge of the sample at idx
FarEnd(hm, edge, idx) == IF edge = "h" THEN idx + 1 ELSE idx + hm.width

\* a point of pts comes from the given edge of the sample (x, y)
Emitted(pts, edge, x, y) ==
  \E i \in 1..Len(pts) : pts[i].edge = edge /\ pts[i].x = x /\ pts[i].y = y

\* one end is <= l and the other is > l
Straddles(v0, v1, l) ==
  \/ Leq(v0, l) /\ Gt(v1, l)
  \/ Leq(v1, l) /\ Gt(v0, l)

\* all the samples are equal
Flat(hm) == \A i \in 1..Len(hm.data) : StrictEq(hm.data[i], hm.data[1])

\* C1: for every level and every tested edge, a point is emitted for the edge
\* exactly when one of the two compared endpoint values is <= the compared
\* level and the other is > it (a value equal to the level counts as below).
\* The compared values are sample * max_elevation_km and level *
\* max_elevation_km.
C1_CrossingRule ==
  Rendered =>
    \A k \in 1..Len(levels) :
      \A c \in TestedSamples(heightmap) :
        \A edge \in {"h", "v"} :
          LET idx == c[2] * heightmap.width + c[1]
              s0  == Sample(heightmap, idx)
              s1  == Sample(heightmap, FarEnd(heightmap, edge, idx))
              me  == mapScale.max_elevation_km
              hit == Emitted(points[k], edge, c[1], c[2])
          IN  hit <=> Straddles(Mul(s0, me), Mul(s1, me), Mul(levels[k], me))

\* C1 witness: a point was emitted for an edge whose first end equals the level
C1_Witness ==
  /\ Rendered
  /\ \E k \in 1..Len(levels) :
       \E i \in 1..Len(points[k]) :
         /\ StrictEq(points[k][i].v0, Mul(levels[k], mapScale.max_elevation_km))
         /\ Gt(points[k][i].v1, points[k][i].v0)

\* C2: whenever the interpolation t is evaluated for an edge, the two ends
\* of the edge differ, so the division is by a non-zero number and t is finite.
C2_NoDivisionByZero ==
  Rendered =>
    \A k \in 1..Len(points) :
      \A i \in 1..Len(points[k]) :
        /\ ~StrictEq(points[k][i].v1, points[k][i].v0)
        /\ ~IsZero(Sub(points[k][i].v1, points[k][i].v0))
        /\ IsFinite(points[k][i].t)

\* C2 witness: an interpolation was evaluated under a negative elevation scale
C2_Witness ==
  /\ Rendered
  /\ Lt(mapScale.max_elevation_km, Int2Num(0))
  /\ \E k \in 1..Len(points) : Len(points[k]) > 0

\* C3 (as claimed): with a level count of 1 on a grid that is not flat, the
\* only level planned is the grid's minimum.
C3_SingleLevelIsMin ==
  (Rendered /\ contourLevels = 1 /\ ~Flat(heightmap)) =>
    levels = <<MinHeight(heightmap)>>

\* C4 (as claimed): on a flat grid exactly one level, equal to the minimum,
\* is planned whatever the level count.
C4_FlatPlansMin ==
  (Rendered /\ contourLevels >= 1 /\ Flat(heightmap)) =>
    levels = <<MinHeight(heightmap)>>

\* C4 (amended): on a flat grid no level is planned whatever the level
\* count: the level list and the point lists are empty, so no division is
\* evaluated, and no contour group is installed.
C4_FlatPlansNothing ==
  (Rendered /\ Flat(heightmap)) =>
    /\ levels = <<>>
    /\ points = <<>>
    /\ \A i \in 1..Len(scene) : scene[i].kind # "contours"

\* C4 witness: a flat grid rendered with a level count of 1, where the
\* spacing i / (count - 1) would be 0/0
C4_Witness ==
  /\ Rendered
  /\ Flat(heightmap)
  /\ heightmap.width >= 2
  /\ contourLevels = 1

\* C5: on a grid that is not flat and with a level count of at least 2, the
\* levels are min + (i / (count-1)) * (max - min) for i = 0..count-1, as
\* the code evaluates it: count of them, strictly ascending, the first the
\* minimum, the last the maximum, and each within [min, max].
C5_EvenlySpacedLevels ==
  (Rendered /\ contourLevels >= 2 /\ ~Flat(heightmap)) =>
    LET mn == MinHeight(heightmap)
        mx == MaxHeight(heightmap)
    IN  /\ Len(levels) = contourLevels
        /\ \A k \in 1..Len(levels) :
             /\ levels[k] =
                  Add(mn, Mul(Div(Int2Num(k - 1), Int2Num(contourLevels - 1)), Sub(mx, mn)))
             /\ Leq(mn, levels[k])
             /\ Leq(levels[k], mx)
        /\ \A k \in 1..(Len(levels) - 1) : Lt(levels[k], levels[k + 1])
        /\ StrictEq(levels[1], mn)
        /\ StrictEq(levels[Len(levels)], mx)

\* C5 witness: the twenty levels of the default count were planned between
\* two samples whose difference, and whose steps, are not multiples of the
\* samples' own spacing
C5_Witness ==
  /\ Rendered
  /\ contourLevels = DefaultContourLevels
  /\ Len(levels) = DefaultContourLevels
  /\ StrictEq(MinHeight(heightmap), Fround(Frac(1, 65535)))
  /\ StrictEq(MaxHeight(heightmap), Fround(Frac(32768, 65535)))

\* C6 (as claimed): extraction on a grid narrower or lower than 2 samples is
\* reported as InsufficientResolution and leaves no contour group behind.
C6_SmallGridRejected ==
  (Rendered /\ contourLevels >= 1 /\ (heightmap.width < 2 \/ heightmap.height < 2)) =>
    /\ reported = "InsufficientResolution"
    /\ \A i \in 1..Len(scene) : scene[i].kind # "contours"

\* C7 (as claimed): a level count below 1 is reported as InvalidLevelCount:
\* whenever the renderer has rendered a heightmap with such a count, the
\* handler that did so signalled InvalidLevelCount.
C7_InvalidLevelCountReported ==
  (Rendered /\ contourLevels < 1) => reported = "InvalidLevelCount"

\* the vectors of a level's points
Positions(pts) == [i \in 1..Len(pts) |-> Float32Position(pts[i].pos)]

\* C8 (as claimed): every crossing point detected for a level is in that
\* level's output: a level with at least one point has a line of the
\* contour group made of exactly its points.
C8_EveryPointInOutput ==
  Rendered =>
    \A k \in 1..Len(points) :
      Len(points[k]) >= 1 =>
        /\ contours # NULL
        /\ \E j \in 1..Len(contours.children) :
             contours.children[j].points = Positions(points[k])

\* C9 (as claimed): every point is at (x + t, y) or (x, y + t) with
\* 0 <= t <= 1, inside the grid, and its map position spreads the grid
\* coordinates 0 .. width-1 and 0 .. height-1 over the whole map.
C9_PointsSpanTheMap ==
  Rendered =>
    \A k \in 1..Len(points) :
      \A i \in 1..Len(points[k]) :
        LET p == points[k][i]
            w == heightmap.width
            h == heightmap.height
        IN  /\ p.t = Div(Sub(Mul(levels[k], mapScale.max_elevation_km), p.v0),
                         Sub(p.v1, p.v0))
            /\ Leq(Int2Num(0), p.t) /\ Leq(p.t, Int2Num(1))
            /\ p.px = (IF p.edge = "h" THEN Add(Int2Num(p.x), p.t) ELSE Int2Num(p.x))
            /\ p.py = (IF p.edge = "v" THEN Add(Int2Num(p.y), p.t) ELSE Int2Num(p.y))
            /\ Leq(Int2Num(0), p.px) /\ Leq(p.px, Int2Num(w - 1))
            /\ Leq(Int2Num(0), p.py) /\ Leq(p.py, Int2Num(h - 1))
            /\ p.pos.x = Mul(Sub(Div(p.px, Int2Num(w - 1)), Half), mapScale.width_km)
            /\ p.pos.z = Mul(Sub(Div(p.py, Int2Num(h - 1)), Half), mapScale.height_km)

\* C10: on a flat grid of at least 2x2 samples no point is emitted: none by
\* the render, and none by the scan of any level, the flat value included.
C10_FlatGridNoPoints ==
  (Rendered /\ Flat(heightmap) /\ heightmap.width >= 2 /\ heightmap.height >= 2) =>
    /\ \A k \in 1..Len(points) : points[k] = <<>>
    /\ \A i \in 1..Len(scene) :
         scene[i].kind = "contours" => scene[i].children = <<>>
    /\ \A level \in Values \cup {Frac(1, 3), Int2Num(2), Int2Num(0 - 1)} :
         LevelPoints(heightmap, mapScale, level) = <<>>

\* C10 witness: a flat grid of 2x2 or more rendered with several levels asked
C10_Witness ==
  /\ Rendered
  /\ Flat(heightmap)
  /\ heightmap.width >= 2
  /\ heightmap.height >= 2
  /\ contourLevels >= 2

\* C11: for every grid, scale and level strictly greater than the grid's
\* maximum or strictly less than its minimum, the scan of that level pushes
\* no point: its result is the empty array.
C11_OutOfRangeLevelNoPoints ==
  (/\ probe # NULL
   /\ probe.applied
   /\ \/ Gt(probe.level, MaxHeight(probe.heightmap))
      \/ Lt(probe.level, MinHeight(probe.heightmap)))
    => probe.points = <<>>

\* C11 witness: the scan of a level above the maximum has gone through the
\* cells of a grid that is not flat, under a negative elevation scale
C11_Witness ==
  /\ probe # NULL
  /\ probe.applied
  /\ Gt(probe.level, MaxHeight(probe.heightmap))
  /\ ~Flat(probe.heightmap)
  /\ CellCount(probe.heightmap) >= 2
  /\ Lt(probe.mapScale.max_elevation_km, Int2Num(0))

\* the place of a point's edge in the order of the scan: row by row, sample
\* by sample, the horizontal edge of a sample before its vertical edge
ScanRank(p, hm) ==
  2 * (p.y * (hm.width - 1) + p.x) + (IF p.edge = "h" THEN 0 ELSE 1)

\* C12: per level, every point comes from the horizontal or the vertical
\* forward edge of a sample (x, y) with 0 <= x < width-1 and 0 <= y < height-1,
\* and the points appear in the order of a row-major visit with the
\* horizontal edge first; so no edge gives two points, a sample gives at most
\* two, and a level has at most 2*(width-1)*(height-1) points.
C12_ForwardEdgesOnce ==
  Rendered =>
    \A k \in 1..Len(points) :
      LET pts == points[k]
          w   == heightmap.width
          h   == heightmap.height
      IN  /\ \A i \in 1..Len(pts) :
               LET idx == pts[i].y * w + pts[i].x
               IN  /\ pts[i].edge \in {"h", "v"}
                   /\ pts[i].x \in 0..(w - 2)
                   /\ pts[i].y \in 0..(h - 2)
                   /\ pts[i].v0 = Mul(Sample(heightmap, idx), mapScale.max_elevation_km)
                   /\ pts[i].v1 = Mul(Sample(heightmap, FarEnd(heightmap, pts[i].edge, idx)),
                                      mapScale.max_elevation_km)
          /\ \A i \in 1..(Len(pts) - 1) :
               ScanRank(pts[i], heightmap) < ScanRank(pts[i + 1], heightmap)
          /\ \A i, j \in 1..Len(pts) :
               (pts[i].edge = pts[j].edge /\ pts[i].x = pts[j].x /\ pts[i].y = pts[j].y)
                 => i = j
          /\ \A c \in TestedSamples(heightmap) :
               Cardinality({i \in 1..Len(pts) : pts[i].x = c[1] /\ pts[i].y = c[2]}) <= 2
          /\ Len(pts) <= 2 * CellCount(heightmap)

\* C12 witness: on a grid of three rows and three columns, a level whose
\* first sample gave two points, the horizontal one first, whose sample
\* (1, 0) of the first row gave the next point and whose sample (0, 1) of
\* the second row gave a point after that
C12_Witness ==
  /\ Rendered
  /\ heightmap.width = 3
  /\ heightmap.height = 3
  /\ \E k \in 1..Len(points) :
       /\ Len(points[k]) >= 4
       /\ points[k][1].edge = "h" /\ points[k][1].x = 0 /\ points[k][1].y = 0
       /\ points[k][2].edge = "v" /\ points[k][2].x = 0 /\ points[k][2].y = 0
       /\ points[k][3].x = 1 /\ points[k][3].y = 0
       /\ \E j \in 4..Len(points[k]) : points[k][j].x = 0 /\ points[k][j].y = 1

\* the contour groups among the children of a scene
ContourGroupsIn(children) == SelectSeq(children, LAMBDA o : o.kind = "contours")

\* the point lists of the lines of a contour group
LinePoints(group) == [j \in 1..Len(group.children) |-> group.children[j].points]

\* the contour lines in the scene, group by group
SceneLines ==
  [i \in 1..Len(ContourGroupsIn(scene)) |-> LinePoints(ContourGroupsIn(scene)[i])]

\* C13: a handler that runs the extraction again on the same heightmap,
\* level count and map scale (a refresh, a change of color or of the grid
\* switch) ends with the same levels, the same points in the same order and
\* the same contour lines in the scene as the run before it.
C13_Idempotent ==
  [][(Rendered /\ heightmap' = heightmap /\ mapScale' = mapScale
        /\ contourLevels' = contourLevels)
       => (levels' = levels /\ points' = points /\ SceneLines' = SceneLines)]_vars

\* C13 witness: the extraction has run again after a render that added the
\* reference grid, with lines in the scene
C13_Witness ==
  /\ Rendered
  /\ grid # NULL
  /\ ~showGrid
  /\ colorScheme = "neon"
  /\ Len(SceneLines) = 1
  /\ Len(SceneLines[1]) >= 1

\* the magnitude of a number
Magnitude(a) == IF IsNaN(a) THEN a ELSE [a EXCEPT !.s = 1]

\* a and b differ by no more than a few units in the last place of the
\* larger of p and q: by 2^-49 * (|p| + |q|) at most
RoundsTo(a, b, p, q) ==
  Leq(Magnitude(Sub(a, b)),
      Mul([k |-> "num", s |-> 1, m |-> <<1>>, e |-> 0 - 49],
          Add(Magnitude(p), Magnitude(q))))

\* what C14 says of the application's last terrain info, the relation of
\* elevationRange to maxElevation - minElevation being Same
TerrainInfoIs(Same(_, _, _, _)) ==
  Rendered =>
    \E mn \in {MinHeight(heightmap)}, mx \in {MaxHeight(heightmap)},
       me \in {mapScale.max_elevation_km}, k \in {Int2Num(1000)} :
        /\ terrainInfo.minElevation = Mul(Mul(mn, me), k)
        /\ terrainInfo.maxElevation = Mul(Mul(mx, me), k)
        /\ terrainInfo.elevationRange = Mul(Mul(Sub(mx, mn), me), k)
        /\ Same(terrainInfo.elevationRange,
                Sub(terrainInfo.maxElevation, terrainInfo.minElevation),
                terrainInfo.maxElevation, terrainInfo.minElevation)
        /\ Gt(me, Int2Num(0)) =>
             Leq(terrainInfo.minElevation, terrainInfo.maxElevation)
        /\ terrainInfo.mapWidth = mapScale.width_km
        /\ terrainInfo.mapHeight = mapScale.height_km
        /\ \A i \in 1..Len(heightmap.data) :
             Leq(mn, heightmap.data[i]) /\ Leq(heightmap.data[i], mx)
        /\ \E i, j \in 1..Len(heightmap.data) :
             StrictEq(heightmap.data[i], mn) /\ StrictEq(heightmap.data[j], mx)

\* C14 (as claimed): getTerrainInfo returns minElevation = min *
\* max_elevation_km * 1000, maxElevation = max * max_elevation_km * 1000 and
\* elevationRange = (max - min) * max_elevation_km * 1000 over the samples'
\* minimum and maximum, with mapWidth and mapHeight the scale's width_km and
\* height_km; so elevationRange = maxElevation - minElevation, and
\* minElevation <= maxElevation under a positive scale.
C14_TerrainInfoExact ==
  TerrainInfoIs(LAMBDA range, difference, p, q : StrictEq(range, difference))

\* C14 (amended): as above, each field being the value of its expression in
\* double precision, so that elevationRange equals maxElevation -
\* minElevation up to the rounding of the products (a few units in the last
\* place).  Samples 0.1 and 0.9 held in a Float32Array with
\* max_elevation_km = 5 give 500, 4500 and 4000 to within a millimetre.
C14_TerrainInfo ==
  /\ TerrainInfoIs(RoundsTo)
  /\ LET info == GetTerrainInfo(
                    Heightmap(2, 2, <<Half, Fround(Frac(9, 10)), Fround(Frac(1, 10)), Half>>),
                    DEFAULT_MAP_SCALE)
         Near(a, metres) == Leq(Magnitude(Sub(a, Int2Num(metres))), Frac(1, 1000))
     IN  /\ Near(info.minElevation, 500)
         /\ Near(info.maxElevation, 4500)
         /\ Near(info.elevationRange, 4000)

\* C14 witness: the info of two samples of a .r16 file under an elevation
\* of 0.1 km, whose range is not the difference of its two elevations
C14_Witness ==
  /\ Rendered
  /\ mapScale.max_elevation_km = Frac(1, 10)
  /\ Gt(terrainInfo.elevationRange, Int2Num(0))
  /\ ~StrictEq(terrainInfo.elevationRange,
               Sub(terrainInfo.maxElevation, terrainInfo.minElevation))

\* the unsigned little-endian number of the given bytes
LittleEndian(bytes) ==
  LET RECURSIVE From(_)
      From(i) == IF i > Len(bytes) THEN 0 ELSE bytes[i] + 256 * From(i + 1)
  IN  From(1)

\* the settling of the read of a .r16 file: the file is accepted exactly
\* when it is readable, holds the 8 bytes of the header and is 8 + width *
\* height * 2 bytes long; accepted, it becomes the heightmap whose sample k
\* is Stored(the little-endian 16-bit number at byte 8 + 2*k over 65535);
\* otherwise a failure is alerted and no heightmap is set
R16Settles(Stored(_)) ==
  \A i \in 1..Len(pending) :
    (pending' = RemoveAt(pending, i) /\ pending[i].ext = "r16") =>
      LET b == pending[i].bytes
          w == LittleEndian(SubSeq(b, 1, 4))
          h == LittleEndian(SubSeq(b, 5, 8))
      IN  IF pending[i].readable /\ Len(b) >= 8 /\ Len(b) = 8 + w * h * 2
            THEN /\ heightmap' =
                      Heightmap(w, h,
                        [k \in 1..(w * h) |->
                           Stored(Div(Int2Num(LittleEndian(SubSeq(b, 7 + 2 * k, 8 + 2 * k))),
                                      Int2Num(65535)))])
                 /\ appHeightmap' = heightmap'
                 /\ reported' = "none"
            ELSE /\ heightmap' = heightmap
                 /\ appHeightmap' = appHeightmap
                 /\ scene' = scene
                 /\ reported' \in
                      {"Invalid R16 file size",
                       "Failed to parse R16 file: Offset is outside the bounds of the DataView",
                       "Failed to read file"}

\* C15 (as claimed): when the read of a .r16 file settles, the file is
\* accepted exactly when it is readable, holds the 8 bytes of the header and
\* is 8 + width * height * 2 bytes long, width and height being the
\* little-endian 32-bit numbers of bytes 0-3 and 4-7; accepted, it becomes
\* the heightmap whose sample i is the little-endian 16-bit number at byte
\* 8 + 2*i over 65535; otherwise a failure is alerted and no heightmap is set.
C15_R16DecodeExact ==
  [][R16Settles(LAMBDA quotient : quotient)]_vars

\* C15 (amended): as above, but sample i is the single-precision number
\* nearest to the little-endian 16-bit number at byte 8 + 2*i over 65535,
\* the heightmap being a Float32Array.
C15_R16Decode ==
  [][R16Settles(Fround)]_vars

\* C15 witness: a file of two samples was accepted, the first sample 32768
\* in little-endian bytes, stored as the single-precision number nearest
\* to 32768/65535 and not as that quotient in double precision
C15_Witness ==
  /\ pending = <<>>
  /\ heightmap # NULL
  /\ heightmap.width = 2
  /\ heightmap.height = 1
  /\ heightmap.data[1] = Fround(Frac(32768, 65535))
  /\ heightmap.data[1] # Frac(32768, 65535)
  /\ heightmap.data[2] = Int2Num(1)

\* a grid of positive width and height with width * height samples
ValidGrid(hm) ==
  /\ hm.width > 0
  /\ hm.height > 0
  /\ Len(hm.data) = hm.width * hm.height

\* C16 (as claimed): every heightmap handed to the renderer, whatever its
\* source, has a positive width and height and width * height samples.
C16_LoadedGridsValid ==
  heightmap # NULL => ValidGrid(heightmap)

\* C17: no operation of the renderer changes the loaded heightmap: a step
\* either leaves heightmap (its data, width and height) as it is, or is a
\* setHeightmap that replaces it as a whole by the heightmap it is given,
\* in the application and in the renderer, and leaves the parameters alone.
C17_GridNeverMutated ==
  [][\/ heightmap' = heightmap
     \/ /\ heightmap' \in SessionGrids
        /\ appHeightmap' = heightmap'
        /\ mapScale' = mapScale
        /\ contourLevels' = contourLevels
        /\ colorScheme' = colorScheme
        /\ colorSchemes' = colorSchemes
        /\ showGrid' = showGrid]_vars

\* C17 witness: the grid with one raised corner is still loaded after the
\* scale, the level count, the grid switch and the colors were all changed
C17_Witness ==
  /\ Rendered
  /\ heightmap = Heightmap(2, 2, <<Int2Num(1), Int2Num(0), Int2Num(0), Int2Num(0)>>)
  /\ appHeightmap = heightmap
  /\ mapScale # DEFAULT_MAP_SCALE
  /\ contourLevels = 1
  /\ ~showGrid
  /\ colorScheme = "neon"
  /\ Len(SceneLines) = 1

\* C18: with the passes of the levels taken in any order, the array of a
\* level holds at every moment the first points of the sequential scan of
\* that level alone, and all of them once the level's passes are done:
\* what a level yields depends on the heightmap, the scale and the level only.
C18_LevelsIndependent ==
  \A k \in 1..Len(levels) :
    LET alone == LevelPoints(heightmap, mapScale, levels[k])
    IN  /\ Len(points[k]) <= Len(alone)
        /\ points[k] = SubSeq(alone, 1, Len(points[k]))
        /\ scanned[k] = CellCount(heightmap) => points[k] = alone

\* C18 witness: the second level was scanned to its end, with points,
\* before the first pass of the first level, which has points to give too
C18_Witness ==
  /\ Len(levels) >= 2
  /\ scanned[1] = 0
  /\ scanned[2] = CellCount(heightmap)
  /\ CellCount(heightmap) >= 2
  /\ points[2] # <<>>
  /\ LevelPoints(heightmap, mapScale, levels[1]) # <<>>

\* C19: once a heightmap is loaded, after any handler the contour lines in
\* the scene are those of one extraction from the current heightmap, level
\* count, map scale and colors: one group holding its lines when the
\* extraction installs a group (none of the lines of an earlier render), and
\* no group at all when it installs none (a flat grid, a level count <= 0).
C19_SceneShowsCurrentContours ==
  Rendered =>
    \E r \in {Run("renderTerrain", [heightmap |-> heightmap, mapScale |-> mapScale,
                                     contourLevels |-> contourLevels])} :
      /\ ContourGroupsIn(scene) =
           (IF r.scan.installs THEN <<GroupOf(r.geometries, RendererColorScheme)>> ELSE <<>>)
      /\ levels = r.scan.levels
      /\ points = r.scan.points
      /\ (Flat(heightmap) \/ contourLevels <= 0) => ContourGroupsIn(scene) = <<>>

\* C19 witness: a flat grid is shown without contours while the renderer
\* still refers to the contour group of an earlier heightmap
C19_Witness ==
  /\ Rendered
  /\ Flat(heightmap)
  /\ contours # NULL
  /\ contours.children # <<>>
  /\ ContourGroupsIn(scene) = <<>>

\* the objects of a kind among the children of the scene
OfKind(kind) == SelectSeq(scene, LAMBDA o : o.kind = kind)

\* C20: the scene never holds more than one terrain mesh, one contour group
\* and one reference grid; once a heightmap is loaded it holds exactly one
\* terrain mesh, that of the current heightmap and scale, and the reference
\* grid is in it exactly when showGrid is true.
C20_SceneObjectsUnique ==
  /\ Len(OfKind("terrain")) <= 1
  /\ Len(OfKind("contours")) <= 1
  /\ Len(OfKind("grid")) <= 1
  /\ heightmap # NULL =>
       /\ OfKind("terrain") =
            <<Run("renderTerrain", [heightmap |-> heightmap, mapScale |-> mapScale,
                                    contourLevels |-> contourLevels]).mesh>>
       /\ OfKind("terrain") = <<terrain>>
       /\ showGrid <=> Len(OfKind("grid")) = 1
       /\ showGrid => OfKind("grid") = <<grid>>

\* C20 witness: the grid is switched off and gone from the scene while the
\* renderer still refers to the grid of an earlier render
C20_Witness ==
  /\ heightmap # NULL
  /\ ~showGrid
  /\ grid # NULL
  /\ OfKind("grid") = <<>>
  /\ Len(OfKind("terrain")) = 1
  /\ Len(OfKind("contours")) = 1

\* C21 (as claimed): a step of handleFileSelect that signals a failure (a
\* file of another extension, a read that rejects) leaves the application's
\* heightmap, the renderer's heightmap and the scene as they were, and every
\* step that ends a handleFileSelect, with a heightmap set or with a failure
\* signalled, leaves the file input empty.
C21_FileSelectionOutcomes ==
  [][/\ reported' # "none" =>
          /\ appHeightmap' = appHeightmap
          /\ heightmap' = heightmap
          /\ scene' = scene
     /\ (reported' # "none" \/ Len(pending') < Len(pending)) => fileInput' = ""]_vars

\* what a request yields once its operation has completed
RequestOutcome(r) ==
  IF r.kind = "file" THEN ReadHeightmap(r.file) ELSE Resolved(r.heightmap)

\* C22 (as claimed): the application and the renderer hold the same
\* heightmap after every step, and when the last read in flight settles the
\* heightmap held is the one of the load requested last, when that load
\* yields one, in whatever order the reads settled.
C22_LatestRequestWins ==
  [][/\ appHeightmap' = heightmap'
     /\ (pending # <<>> /\ pending' = <<>>) =>
          \E outcome \in {RequestOutcome(requested)} :
            outcome.ok => appHeightmap' = outcome.heightmap]_vars

====
